---------------------------- MODULE Spec2Model ----------------------------
(***************************************************************************)
(* A model of src/distribute.py (modify_sql_federated): the mapping        *)
(* loader, the combo pool, rewrite_sql over a parsed statement list, and   *)
(* main's file loop.                                                       *)
(*                                                                         *)
(* Strings are sequences of one-character strings (<<"a", ".", "x">> is    *)
(* "a.x"), so that str.split, str.lower and iteration over a string are    *)
(* modelled by what they do.  In a file's text a unit may also be a whole  *)
(* word ("SELECT"): a run of characters none of which is blank, a dash or  *)
(* a semicolon, which the text functions of the program never look into.   *)
(***************************************************************************)
EXTENDS Naturals, Integers, Sequences, FiniteSets, TLC

VARIABLES
    pc,         \* main's position: "start", "load", "pool", "glob", "loop",
                \* or an end: "done", "exit" (sys.exit), "crash" (uncaught)
    env,        \* what main finds outside itself: [inputDirOk, data, files]
    mapping,    \* main's mapping: a sequence of <<catalog, schemas>>
    combos,     \* main's combos: the pool, a sequence of strings
    idx,        \* the number of files of sql_files whose loop body has run
    fs,         \* files written so far: a sequence of [file, kind, how]
    rng,        \* the random generator last constructed: [id, pos]
    last,       \* the locals of the last loop body (see NoLast)
    log,        \* what was printed: a sequence of message kinds
    imp,        \* a run of one of the importers (see NoImp)
    gen         \* a run of generate_chunks (see NoGen)

vars == <<pc, env, mapping, combos, idx, fs, rng, last, log, imp, gen>>

-----------------------------------------------------------------------------
(* Bounds of the model. *)

MaxFiles == 2       \* files in the input directory
MaxCatalogs == 2    \* keys of a generated mapping resource
MaxSchemas == 2     \* elements of a generated schema list
MaxStmts == 2       \* statements of a generated file
MaxTables == 2      \* table nodes of a generated file, over its statements

-----------------------------------------------------------------------------
(* Sequences and strings. *)

Range(s) == {s[i] : i \in DOMAIN s}

SeqsUpTo(S, n) == UNION {[1..k -> S] : k \in 0..n}

RECURSIVE Concat(_)
Concat(ss) == IF ss = <<>> THEN <<>> ELSE Head(ss) \o Concat(Tail(ss))

\* str.lower, one character at a time
LowerChar(c) ==
    CASE c = "T" -> "t"
      [] c = "U" -> "u"
      [] c = "R" -> "r"
      [] OTHER -> c

Lower(s) == [i \in DOMAIN s |-> LowerChar(s[i])]

\* the position of the first "." of s, 0 when there is none
FirstDot(s) ==
    IF \E i \in DOMAIN s : s[i] = "."
    THEN CHOOSE i \in DOMAIN s : s[i] = "." /\ \A j \in 1..(i - 1) : s[j] # "."
    ELSE 0

\* s.split(".", 1) of a string that holds a "."
SplitOnce(s) ==
    LET d == FirstDot(s)
    IN  <<SubSeq(s, 1, d - 1), SubSeq(s, d + 1, Len(s))>>


-----------------------------------------------------------------------------
(* The mapping resource and load_mapping.                                  *)
(* A parsed resource is [root, items]: root "dict" with its items in       *)
(* document order, or root "list" (any root that is not a dict), or root   *)
(* "invalid" (a document json.loads / yaml.safe_load rejects).  A key or   *)
(* list element is a scalar, a value is a list, a string or an integer.    *)

StrVal(s) == [t |-> "str", s |-> s]
IntVal(n) == [t |-> "int", n |-> n]
ListVal(es) == [t |-> "list", elems |-> es]
Item(k, v) == [key |-> k, val |-> v]
DictDoc(items) == [root |-> "dict", items |-> items]

Digit(n) == CASE n = 0 -> "0" [] n = 1 -> "1" [] n = 2 -> "2" [] OTHER -> "9"

\* str(x) of a scalar: a string is itself, a one-digit integer is its digit
Str(x) == IF x.t = "str" THEN x.s ELSE <<Digit(x.n)>>

\* whether `for sch in schemas` can iterate the value (an int raises TypeError)
Iterable(v) == v.t \in {"list", "str"}

\* [str(sch) for sch in schemas]: a list gives its elements, a string gives
\* its characters one by one
StrEach(v) ==
    IF v.t = "list"
    THEN [i \in DOMAIN v.elems |-> Str(v.elems[i])]
    ELSE [i \in DOMAIN v.s |-> <<v.s[i]>>]

\* d[k] = v on an insertion-ordered dict held as a sequence of <<key, value>>
DictPut(d, k, v) ==
    IF \E i \in DOMAIN d : d[i][1] = k
    THEN [i \in DOMAIN d |-> IF d[i][1] = k THEN <<k, v>> ELSE d[i]]
    ELSE Append(d, <<k, v>>)

RECURSIVE DictOf(_, _)
DictOf(items, d) ==
    IF items = <<>> THEN d
    ELSE DictOf(Tail(items),
                DictPut(d, Str(Head(items).key), StrEach(Head(items).val)))

\* load_mapping(path): the mapping, or how the call ends the process
load_mapping(data) ==
    IF data.root = "invalid" THEN [status |-> "crash", mapping |-> <<>>]
    ELSE IF data.root # "dict" THEN [status |-> "exit", mapping |-> <<>>]
    ELSE IF \E i \in DOMAIN data.items : ~Iterable(data.items[i].val)
         THEN [status |-> "crash", mapping |-> <<>>]
    ELSE [status |-> "ok", mapping |-> DictOf(data.items, <<>>)]

\* f"{cat}.{schema}"
Combo(cat, schema) == cat \o <<".">> \o schema

\* the same list built from every catalog and every schema of the mapping
CombosCrossProduct(m) ==
    Concat([i \in DOMAIN m |->
              Concat([k \in DOMAIN m |->
                        [j \in DOMAIN m[k][2] |-> Combo(m[i][1], m[k][2][j])]])])

\* [f"{cat}.{schema}" for cat, schemas in mapping.items() for schema in schemas]
BuildCombos(m) ==
    Concat([i \in DOMAIN m |->
              [j \in DOMAIN m[i][2] |-> Combo(m[i][1], m[i][2][j])]])

-----------------------------------------------------------------------------
(* Text utilities of main. *)

IsSpace(c) == c \in {" ", "\n", "\t"}

\* s.lstrip() and s.rstrip()
RECURSIVE LStrip(_)
LStrip(s) == IF s # <<>> /\ IsSpace(Head(s)) THEN LStrip(Tail(s)) ELSE s

RECURSIVE RStrip(_)
RStrip(s) ==
    IF s # <<>> /\ IsSpace(s[Len(s)]) THEN RStrip(SubSeq(s, 1, Len(s) - 1)) ELSE s

\* text.splitlines(), lines ending at "\n"
RECURSIVE SplitLines(_)
SplitLines(s) ==
    IF s = <<>> THEN <<>>
    ELSE IF \E i \in DOMAIN s : s[i] = "\n"
         THEN LET n == CHOOSE i \in DOMAIN s :
                          s[i] = "\n" /\ \A j \in 1..(i - 1) : s[j] # "\n"
              IN  <<SubSeq(s, 1, n - 1)>> \o SplitLines(SubSeq(s, n + 1, Len(s)))
         ELSE <<s>>

\* sep.join(parts)
RECURSIVE Join(_, _)
Join(sep, parts) ==
    IF parts = <<>> THEN <<>>
    ELSE IF Len(parts) = 1 THEN parts[1]
    ELSE parts[1] \o sep \o Join(sep, Tail(parts))

\* ln.startswith("--"), without the lstrip
IsCommentLineUnindented(ln) ==
    Len(ln) >= 2 /\ ln[1] = "-" /\ ln[2] = "-"

\* ln.lstrip().startswith("--")
IsCommentLine(ln) ==
    LET l == LStrip(ln) IN Len(l) >= 2 /\ l[1] = "-" /\ l[2] = "-"

\* [ln for ln in lines if not ln.lstrip().startswith("--")]
RECURSIVE NonCommentLines(_)
NonCommentLines(lines) ==
    IF lines = <<>> THEN <<>>
    ELSE (IF IsCommentLine(Head(lines)) THEN <<>> ELSE <<Head(lines)>>)
         \o NonCommentLines(Tail(lines))

strip_comments_and_semicolon(text) ==
    LET lines == NonCommentLines(SplitLines(text))
        cleaned == RStrip(Join(<<"\n">>, lines))
    IN  IF cleaned # <<>> /\ cleaned[Len(cleaned)] = ";"
        THEN SubSeq(cleaned, 1, Len(cleaned) - 1)
        ELSE cleaned

\* text.split(): the maximal runs of non-blank units
RECURSIVE Words(_)
Words(s) ==
    LET t == LStrip(s)
    IN  IF t = <<>> THEN <<>>
        ELSE IF \E i \in DOMAIN t : IsSpace(t[i])
             THEN LET n == CHOOSE i \in DOMAIN t :
                              IsSpace(t[i]) /\ \A j \in 1..(i - 1) : ~IsSpace(t[j])
                  IN  <<SubSeq(t, 1, n - 1)>> \o Words(SubSeq(t, n + 1, Len(t)))
             ELSE <<t>>

\* every blank replaced by a space, runs and ends kept
SingleLineNoCollapse(text) ==
    [i \in DOMAIN text |-> IF IsSpace(text[i]) THEN " " ELSE text[i]]

\* " ".join(rewritten.split())
SingleLine(text) == Join(<<" ">>, Words(text))

-----------------------------------------------------------------------------
(* Parsed SQL.  A statement is what rewrite_sql reads of a sqlglot tree:   *)
(* the aliases of its exp.CTE nodes and its exp.Table nodes, both in       *)
(* find_all order.  isNone marks an entry of sqlglot.parse's list that is  *)
(* None (an empty statement).  A qualifier that is absent is <<>>.         *)
(* Of what rewrite_sql never reads a tree keeps the alias of each table    *)
(* node, the column references, and the query each CTE and each table node *)
(* stands in: 0 is the outermost query of the statement, k > 0 a subquery  *)
(* of it.                                                                  *)

Table(catalog, db, name, parentIsCTE) ==
    [catalog |-> catalog, db |-> db, name |-> name, parentIsCTE |-> parentIsCTE,
     alias |-> <<>>, scope |-> 0]

\* the table node t written `t AS alias`
Aliased(t, alias) == [t EXCEPT !.alias = alias]

\* the table node t standing in subquery k
Within(t, k) == [t EXCEPT !.scope = k]

Stmt(ctes, tables) ==
    [isNone |-> FALSE, ctes |-> ctes, tables |-> tables, columns |-> <<>>,
     cteScopes |-> [i \in DOMAIN ctes |-> 0]]

\* the statement with the column references cols
Selecting(stmt, cols) == [stmt EXCEPT !.columns = cols]

\* the statement with its i-th CTE defined by the WITH of query scopes[i]
Nested(stmt, scopes) == [stmt EXCEPT !.cteScopes = scopes]

NoneStmt ==
    [isNone |-> TRUE, ctes |-> <<>>, tables |-> <<>>, columns |-> <<>>,
     cteScopes |-> <<>>]

\* what sqlglot.parse(sql) does with a text: a list of statements, or raises
Parsed(stmts) == [outcome |-> "ok", stmts |-> stmts]
ParseFails(error) == [outcome |-> error, stmts |-> <<>>]

\* cte_names of the CTEs that the outermost query of the statement defines
CteNamesOutermost(stmt) ==
    {Lower(stmt.ctes[i]) :
        i \in {j \in DOMAIN stmt.ctes : stmt.ctes[j] # <<>> /\ stmt.cteScopes[j] = 0}}

\* cte_names of one statement: stmt.find_all(exp.CTE) walks the whole tree
CteNames(stmt) ==
    {Lower(stmt.ctes[i]) : i \in {j \in DOMAIN stmt.ctes : stmt.ctes[j] # <<>>}}

\* the three `continue`s of the table loop, testing the catalog only
SkipReasonCatalogOnly(stmt, t) ==
    IF t.catalog # <<>> THEN "qualified"
    ELSE IF t.parentIsCTE THEN "cte_definition"
    ELSE IF Lower(t.name) \in CteNames(stmt) THEN "cte_use"
    ELSE "none"

\* the three `continue`s of the table loop, comparing names case-sensitively
SkipReasonCaseSensitive(stmt, t) ==
    IF t.db # <<>> \/ t.catalog # <<>> THEN "qualified"
    ELSE IF t.parentIsCTE THEN "cte_definition"
    ELSE IF t.name \in CteNames(stmt) THEN "cte_use"
    ELSE "none"

\* the three `continue`s of the table loop: why a table node is left alone,
\* "none" when it is to be prefixed
SkipReason(stmt, t) ==
    IF t.db # <<>> \/ t.catalog # <<>> THEN "qualified"
    ELSE IF t.parentIsCTE THEN "cte_definition"
    ELSE IF Lower(t.name) \in CteNames(stmt) THEN "cte_use"
    ELSE "none"

\* a prefix whose schema is always that of the pool's first entry
random_prefix_mixed(pool, k) ==
    <<SplitOnce(pool[k])[1], SplitOnce(pool[1])[2]>>

\* random_prefix() when rng.choice picks the k-th entry of the pool
random_prefix(pool, k) == SplitOnce(pool[k])

\* the statements before the first None one: the loop raises there
Walked(stmts) ==
    {s \in DOMAIN stmts : \A r \in 1..s : ~stmts[r].isNone}

\* the table loop with one set of CTE names for the whole file
PrefixedFileWideCtes(stmts) ==
    {p \in Walked(stmts) \X (1..MaxTables + 1) :
        /\ p[2] \in DOMAIN stmts[p[1]].tables
        /\ SkipReason(stmts[p[1]], stmts[p[1]].tables[p[2]]) = "none"
        /\ \A s \in DOMAIN stmts :
              Lower(stmts[p[1]].tables[p[2]].name) \notin CteNames(stmts[s])}

\* the table nodes the loop prefixes, as <<statement, table>> positions
Prefixed(stmts) ==
    {p \in Walked(stmts) \X (1..MaxTables + 1) :
        /\ p[2] \in DOMAIN stmts[p[1]].tables
        /\ SkipReason(stmts[p[1]], stmts[p[1]].tables[p[2]]) = "none"}

Before(p, q) == p[1] < q[1] \/ (p[1] = q[1] /\ p[2] <= q[2])

\* which call of random_prefix serves position p, counting from 1
DrawNo(stmts, p) == Cardinality({q \in Prefixed(stmts) : Before(q, p)})

\* the table loop without its table.set("db", schema)
RewriteTreesNoSchema(stmts, pool, ch) ==
    [s \in DOMAIN stmts |->
        [stmts[s] EXCEPT !.tables =
            [i \in DOMAIN stmts[s].tables |->
                IF <<s, i>> \in Prefixed(stmts)
                THEN LET pre == random_prefix(pool, ch[DrawNo(stmts, <<s, i>>)])
                     IN  [stmts[s].tables[i] EXCEPT !.catalog = pre[1]]
                ELSE stmts[s].tables[i]]]]

\* the table loop dropping the alias of each node it prefixes
RewriteTreesDroppingAlias(stmts, pool, ch) ==
    [s \in DOMAIN stmts |->
        [stmts[s] EXCEPT !.tables =
            [i \in DOMAIN stmts[s].tables |->
                IF <<s, i>> \in Prefixed(stmts)
                THEN LET pre == random_prefix(pool, ch[DrawNo(stmts, <<s, i>>)])
                     IN  [stmts[s].tables[i] EXCEPT !.catalog = pre[1],
                                                    !.db = pre[2],
                                                    !.alias = <<>>]
                ELSE stmts[s].tables[i]]]]

\* the trees after the table loop, when the c-th call of rng.choice picks
\* the ch[c]-th entry of the pool
RewriteTrees(stmts, pool, ch) ==
    [s \in DOMAIN stmts |->
        [stmts[s] EXCEPT !.tables =
            [i \in DOMAIN stmts[s].tables |->
                IF <<s, i>> \in Prefixed(stmts)
                THEN LET pre == random_prefix(pool, ch[DrawNo(stmts, <<s, i>>)])
                     IN  [stmts[s].tables[i] EXCEPT !.catalog = pre[1],
                                                    !.db = pre[2]]
                ELSE stmts[s].tables[i]]]]

\* the pool entries drawn when a statement without table nodes draws one too
DrawsPerStatement(stmts, pool, ch) ==
    [c \in 1..(Cardinality(Prefixed(stmts))
               + Cardinality({s \in DOMAIN stmts : stmts[s].tables = <<>>})) |->
        IF c <= Cardinality(Prefixed(stmts)) THEN pool[ch[c]] ELSE pool[1]]

\* the pool entries drawn, in draw order
Draws(stmts, pool, ch) == [c \in 1..Cardinality(Prefixed(stmts)) |-> pool[ch[c]]]

\* the position each draw was made for, in draw order
DrawnFor(stmts) ==
    [c \in 1..Cardinality(Prefixed(stmts)) |->
        CHOOSE p \in Prefixed(stmts) : DrawNo(stmts, p) = c]

\* a table node as the generator writes it: its parts that are set, dotted,
\* and its alias
TableSql(t) ==
    (IF t.catalog # <<>> THEN t.catalog \o <<".">> ELSE <<>>)
    \o (IF t.db # <<>> THEN t.db \o <<".">> ELSE <<>>)
    \o t.name
    \o (IF t.alias # <<>> THEN <<" ", "AS", " ">> \o t.alias ELSE <<>>)

\* stmt.sql(dialect="trino"), of the parts of the tree the model holds
StmtSql(stmt) ==
    Concat([i \in DOMAIN stmt.ctes |-> <<"WITH", " ">> \o stmt.ctes[i] \o <<" ">>])
    \o <<"SELECT">>
    \o Concat([i \in DOMAIN stmt.columns |-> <<" ">> \o stmt.columns[i]])
    \o Concat([i \in DOMAIN stmt.tables |-> <<" ">> \o TableSql(stmt.tables[i])])

\* the statements written one after the other, each followed by ";\n"
JoinStatementsEachEnded(stmts) ==
    Concat([s \in DOMAIN stmts |-> StmtSql(stmts[s]) \o <<";", "\n">>])

\* ";\n".join(stmt.sql(dialect="trino") for stmt in statements)
JoinStatements(stmts) ==
    Join(<<";", "\n">>, [s \in DOMAIN stmts |-> StmtSql(stmts[s])])

-----------------------------------------------------------------------------
(* rewrite_sql: every result the call can have.  The generator is made by  *)
(* random.Random() with no seed, so the shuffle may leave the pool in any  *)
(* order and each rng.choice may pick any entry.                           *)

\* random.Random() that reuses the generator of the call before
SameRandom(r) == IF r.id = 0 THEN [id |-> 1, pos |-> 0] ELSE r

\* random.Random(): another generator, none of its values consumed
NewRandom(r) == [id |-> r.id + 1, pos |-> 0]

\* the values rng.shuffle consumes on a list of n elements
ShuffleDraws(n) == IF n > 1 THEN n - 1 ELSE 0

Orders(n) == {f \in [1..n -> 1..n] : \A i, j \in 1..n : f[i] = f[j] => i = j}

\* a shuffle that leaves the first entry of the order in every place
ShuffledLossy(pool, f) == [i \in DOMAIN pool |-> pool[f[1]]]

\* the list after rng.shuffle(combos) put it in order f
Shuffled(pool, f) == [i \in DOMAIN pool |-> pool[f[i]]]

\* n picks that take each entry of a pool of m at most once
ChoicesWithoutReplacement(n, m) ==
    {ch \in [1..n -> 1..m] : \A c, d \in 1..n : ch[c] = ch[d] => c = d}

\* what n calls of rng.choice(combos) can pick of a pool of m entries: each
\* call any entry, whatever the calls before it picked
Choices(n, m) == [1..n -> 1..m]

\* a call that returns or raises before the generator is made, and yet
\* leaves the pool in reverse order
EarlyResultReorders(sql, parse, pool, r, raised, warned) ==
    [raised |-> raised, warned |-> warned, ret |-> sql,
     pool |-> [i \in DOMAIN pool |-> pool[Len(pool) + 1 - i]], rng |-> r,
     parsed |-> parse.stmts, trees |-> parse.stmts, draws |-> <<>>,
     drawnFor |-> <<>>]

\* the result of a call that returns or raises before the generator is made
EarlyResult(sql, parse, pool, r, raised, warned) ==
    [raised |-> raised, warned |-> warned, ret |-> sql, pool |-> pool, rng |-> r,
     parsed |-> parse.stmts, trees |-> parse.stmts, draws |-> <<>>,
     drawnFor |-> <<>>]

\* the body of rewrite_sql after a parse that raised nothing
RewriteParsed(parse, pool, r) ==
    {LET shuffled == Shuffled(pool, f)
         trees == RewriteTrees(parse.stmts, shuffled, ch)
         made == NewRandom(r)
         fails == \E s \in DOMAIN parse.stmts : parse.stmts[s].isNone
     IN  [raised |-> IF fails THEN "AttributeError" ELSE "none",
          warned |-> FALSE,
          ret |-> IF fails THEN <<>> ELSE JoinStatements(trees),
          pool |-> shuffled,
          rng |-> [made EXCEPT !.pos = made.pos + ShuffleDraws(Len(pool))
                                       + Cardinality(Prefixed(parse.stmts))],
          parsed |-> parse.stmts,
          trees |-> trees,
          draws |-> Draws(parse.stmts, shuffled, ch),
          drawnFor |-> DrawnFor(parse.stmts)]
       : f \in Orders(Len(pool)),
         ch \in Choices(Cardinality(Prefixed(parse.stmts)), Len(pool))}

\* rewrite_sql(sql, combos) with the generator r of the call before: the
\* set of results the call can have
rewrite_sql(sql, parse, pool, r) ==
    IF parse.outcome = "ParseError"
    THEN {EarlyResult(sql, parse, pool, r, "none", TRUE)}
    ELSE IF parse.outcome # "ok"
    THEN {EarlyResult(sql, parse, pool, r, parse.outcome, FALSE)}
    ELSE RewriteParsed(parse, pool, r)

-----------------------------------------------------------------------------
(* main. *)

File(text, parse) == [text |-> text, parse |-> parse]

NoLast ==
    [file |-> 0, io |-> "ok", original |-> <<>>, cleaned |-> <<>>,
     outcome |-> "ok", raised |-> "none", warned |-> FALSE,
     parsed |-> <<>>, trees |-> <<>>, draws |-> <<>>, drawnFor |-> <<>>,
     rewritten |-> <<>>, single |-> <<>>, poolBefore |-> <<>>, rngBefore |-> 0,
     states |-> <<>>]

\* the states a file that was read has been through, in order: cleaned, then
\* parsed or failed to parse with the warning (an exception of another class
\* leaves it at Cleaned), then rewritten and serialized unless the table loop
\* raised, then written once dst.write_text returned
FileStates(outcome, raised, warned, wrote) ==
    <<"Loaded", "Cleaned">>
    \o (IF warned THEN <<"Parsed-failed", "Serialized(passthrough)">>
        ELSE IF outcome # "ok" THEN <<>>
        ELSE IF raised # "none" THEN <<"Parsed">>
        ELSE <<"Parsed", "Rewritten", "Serialized">>)
    \o (IF wrote THEN <<"Written">> ELSE <<>>)

\* out_dir = args.output_dir or args.input_dir
OutDir == IF env.outputDir = "other" THEN "out" ELSE "in"

\* dst of the k-th file
DstPath(k) ==
    IF env.outputDir # "none"
    THEN [dir |-> OutDir, stem |-> k, suffix |-> ".sql"]
    ELSE [dir |-> "in", stem |-> k, suffix |-> "_mod.sql"]

\* single_dst of the k-th file
SinglePath(k) ==
    [dir |-> IF env.outputDir = "other" THEN "out/single_line" ELSE "in/single_line",
     stem |-> k, suffix |-> ".sql"]

\* main up to the mkdir calls
MainStart ==
    /\ pc = "start"
    /\ pc' = IF env.inputDirOk THEN "load" ELSE "exit"
    /\ log' = IF env.inputDirOk THEN log
              ELSE Append(log, <<"Input directory not found", 0>>)
    /\ UNCHANGED <<env, mapping, combos, idx, fs, rng, last, imp, gen>>

\* mapping = load_mapping(args.mapping)
LoadMapping ==
    /\ pc = "load"
    /\ LET r == load_mapping(env.data)
       IN  /\ pc' = IF r.status = "ok" THEN "pool" ELSE r.status
           /\ mapping' = r.mapping
           /\ log' = IF r.status = "exit"
                     THEN Append(log, <<"Mapping must be a dict", 0>>) ELSE log
    /\ UNCHANGED <<env, combos, idx, fs, rng, last, imp, gen>>

\* combos = [...]; if not combos: sys.exit(...)
BuildPool ==
    /\ pc = "pool"
    /\ combos' = BuildCombos(mapping)
    /\ pc' = IF combos' = <<>> THEN "exit" ELSE "glob"
    /\ log' = IF combos' = <<>>
              THEN Append(log, <<"Mapping contains no combinations", 0>>) ELSE log
    /\ UNCHANGED <<env, mapping, idx, fs, rng, last, imp, gen>>

\* sql_files = sorted(...); if not sql_files: sys.exit(...)
GlobFiles ==
    /\ pc = "glob"
    /\ pc' = IF env.files = <<>> THEN "exit" ELSE "loop"
    /\ log' = IF env.files = <<>> THEN Append(log, <<"No .sql files found", 0>>)
              ELSE log
    /\ UNCHANGED <<env, mapping, combos, idx, fs, rng, last, imp, gen>>

\* an exception that is caught and passed over: main stays in its loop
RaisedSwallowed == "loop"

\* an exception of read_text, rewrite_sql or write_text in the loop body:
\* nothing in main catches it, the process ends with a traceback
Raised == "crash"

\* one turn of `for src in sql_files`, where io, one of the sequence ios, is
\* the file operation that fails: the read, the write of dst, that of
\* single_dst
LoopBody(ios) ==
    /\ pc = "loop"
    /\ idx < Len(env.files)
    /\ \E n \in DOMAIN ios :
         LET io == ios[n]
             k == idx + 1
             original == env.files[k].text
             cleaned == strip_comments_and_semicolon(original)
         IN  IF io = "read"
             THEN /\ pc' = Raised
                  /\ last' = [NoLast EXCEPT !.file = k, !.io = io,
                                            !.poolBefore = combos,
                                            !.rngBefore = rng.id]
                  /\ UNCHANGED <<combos, idx, fs, rng, log>>
             ELSE \E res \in rewrite_sql(cleaned, env.files[k].parse, combos, rng) :
                    LET how == IF res.warned THEN "passthrough" ELSE "rewritten"
                        dst == [path |-> DstPath(k), file |-> k,
                                kind |-> "dst", how |-> how]
                        sng == [path |-> SinglePath(k), file |-> k,
                                kind |-> "single", how |-> how]
                        wrote == res.raised = "none" /\ io # "write"
                    IN  /\ combos' = res.pool
                        /\ rng' = res.rng
                        /\ last' = [file |-> k, io |-> io, original |-> original,
                                    cleaned |-> cleaned,
                                    outcome |-> env.files[k].parse.outcome,
                                    raised |-> res.raised, warned |-> res.warned,
                                    parsed |-> res.parsed, trees |-> res.trees,
                                    draws |-> res.draws,
                                    drawnFor |-> res.drawnFor,
                                    rewritten |-> IF res.raised = "none"
                                                  THEN res.ret ELSE <<>>,
                                    single |-> IF wrote THEN SingleLine(res.ret)
                                               ELSE <<>>,
                                    poolBefore |-> combos, rngBefore |-> rng.id,
                                    states |-> FileStates(
                                        env.files[k].parse.outcome, res.raised,
                                        res.warned, wrote)]
                        /\ fs' = IF ~wrote THEN fs
                                 ELSE IF io = "single" THEN Append(fs, dst)
                                 ELSE fs \o <<dst, sng>>
                        /\ log' = log
                                  \o (IF res.warned THEN <<<<"warning", k>>>> ELSE <<>>)
                                  \o (IF wrote /\ io = "ok"
                                      THEN <<<<"written", k>>>> ELSE <<>>)
                        /\ idx' = IF wrote /\ io = "ok" THEN k ELSE idx
                        /\ pc' = IF wrote /\ io = "ok" THEN "loop" ELSE Raised
    /\ UNCHANGED <<env, mapping, imp, gen>>

\* one turn of the loop, any file operation failing or none
ProcessFile == LoopBody(<<"ok", "read", "write", "single">>)

\* one turn of the loop with no file operation failing
ProcessFileNoIOError == LoopBody(<<"ok">>)

\* print("All done.")
Finish ==
    /\ pc = "loop"
    /\ idx = Len(env.files)
    /\ pc' = "done"
    /\ log' = Append(log, <<"All done.", 0>>)
    /\ UNCHANGED <<env, mapping, combos, idx, fs, rng, last, imp, gen>>

-----------------------------------------------------------------------------
(* The importers: import_mysql, import_mysql_fast, import_mariadb_fast and *)
(* import_postgres_sequential.  imp holds one run of one of them: the tool,*)
(* its arguments, what the database does (db), main's position, the exit   *)
(* status, the tasks handed to import_chunk_file with the outcome of each, *)
(* and one call of MariaDBFastImporter.import_chunk_file (call).           *)

MaxChunks == 2      \* the greatest --chunks given to an importer
MaxRetries == 5     \* the greatest max_retries of import_chunk_file

Tools ==
    {"import_mysql", "import_mysql_fast", "import_mariadb_fast",
     "import_postgres_sequential"}

\* two of the 25 names of TPCDS_TABLES, which the importers treat alike
TPCDS_TABLES == <<"customer_address", "store_sales">>

\* what one attempt to load a file can meet: no exception, or an exception
\* whose message holds one of the texts import_chunk_file looks for, or none
Outcomes ==
    {"ok", "No such file", "cannot be opened", "doesn't exist",
     "Lock wait timeout exceeded", "other"}

\* /data/chunk_<chunk>/<table>_<chunk>_<num_chunks>.dat
ChunkPath(chunk, table, num_chunks) ==
    [dir |-> chunk, table |-> table, child |-> chunk, parallel |-> num_chunks]

\* /data/<table>.dat
CombinedPath(table) == [dir |-> 0, table |-> table, child |-> 0, parallel |-> 0]

Task(table, path, chunk_id) == [table |-> table, path |-> path, chunk_id |-> chunk_id]

\* tasks of import_chunked_data: for chunk in 1..num_chunks, for each table
ChunkedTasks(num_chunks) ==
    Concat([chunk \in 1..num_chunks |->
              [t \in DOMAIN TPCDS_TABLES |->
                  Task(TPCDS_TABLES[t],
                       ChunkPath(chunk, TPCDS_TABLES[t], num_chunks), chunk)]])

\* tasks of import_combined_data: one for each table, chunk_id None (0)
CombinedTasks ==
    [t \in DOMAIN TPCDS_TABLES |->
        Task(TPCDS_TABLES[t], CombinedPath(TPCDS_TABLES[t]), 0)]

\* the importers whose main has an else branch for --combined-data
HasCombinedBranch(tool) == tool \in {"import_mysql", "import_postgres_sequential"}

\* the tasks main starts after create_tables: `if args.chunks:` and, where
\* the tool has one, its else branch
ImportTasks(tool, args) ==
    IF args.chunks # 0 THEN ChunkedTasks(args.chunks)
    ELSE IF HasCombinedBranch(tool) THEN CombinedTasks
    ELSE <<>>

\* the texts of a missing file, the same three for every tool
MissingFileTextsAlike(tool) ==
    {"No such file", "cannot be opened", "doesn't exist"}

\* the texts of a missing file that the tool's except branch looks for
MissingFileTexts(tool) ==
    IF tool = "import_postgres_sequential"
    THEN {"No such file", "cannot be opened"}
    ELSE {"No such file", "cannot be opened", "doesn't exist"}

\* a retry after any failure while attempts remain
RetriesAfterAnyError(tool, outcome, attempt, max_retries) ==
    /\ tool = "import_mariadb_fast"
    /\ outcome \notin {"ok"} \cup MissingFileTexts(tool)
    /\ attempt < max_retries - 1

\* whether the except branch of attempt number `attempt` (from 0) goes on to
\* the next attempt: only import_mariadb_fast has the loop
Retries(tool, outcome, attempt, max_retries) ==
    /\ tool = "import_mariadb_fast"
    /\ outcome = "Lock wait timeout exceeded"
    /\ attempt < max_retries - 1

\* a result that counts a task whose exception left import_chunk_file
ReturnsOrRaised(tool, outcome) ==
    outcome = "ok" \/ outcome \in MissingFileTexts(tool) \/ outcome = "raised"

\* what import_chunk_file returns when an attempt that is not retried met
\* the outcome
Returns(tool, outcome) == outcome = "ok" \/ outcome \in MissingFileTexts(tool)

NoCall ==
    [table |-> "", max_retries |-> 0, attempt |-> 0, history |-> <<>>,
     slept |-> <<>>, returned |-> "no call"]

\* schema/tpcds.sql beside the importer: absent, or present with
\* statements the database runs ("good") or with one that raises ("bad")
SchemaFiles == <<"missing", "good", "bad">>

\* a create_tables that takes a missing schema file for a failure
create_tablesNeedsSchema(schema) == schema = "good"

\* create_tables: True without touching the database when the schema file
\* is missing, True when every statement ran, False after an exception
create_tables(schema) ==
    IF schema = "missing" THEN TRUE ELSE schema = "good"

\* whether main calls an import routine after create_tables
CallsImport(tool, args) == args.chunks # 0 \/ HasCombinedBranch(tool)

NoImp ==
    [tool |-> "", args |-> [chunks |-> 0, combined |-> FALSE, test |-> FALSE],
     db |-> [connects |-> FALSE, schema |-> "missing"],
     pc |-> "off", status |-> 0, steps |-> <<>>, tasks |-> <<>>,
     outcomes |-> <<>>,
     success_count |-> 0, call |-> NoCall]

\* main: the connection test, with or without --test-connection
ImpTestConnection ==
    /\ imp.pc = "start"
    /\ LET called == [imp EXCEPT !.steps = Append(@, "test_connection")]
       IN  imp' = IF imp.args.test
                  THEN [called EXCEPT
                          !.pc = "exit",
                          !.status = IF imp.db.connects THEN 0 ELSE 1]
                  ELSE IF ~imp.db.connects
                  THEN [called EXCEPT !.pc = "exit", !.status = 1]
                  ELSE [called EXCEPT !.pc = "connected"]
    /\ UNCHANGED <<pc, env, mapping, combos, idx, fs, rng, last, log, gen>>

\* main: create_tables
ImpCreateTables ==
    /\ imp.pc = "connected"
    /\ LET called == [imp EXCEPT !.steps = Append(@, "create_tables")]
       IN  imp' = IF create_tables(imp.db.schema)
                  THEN [called EXCEPT !.pc = "created"]
                  ELSE [called EXCEPT !.pc = "exit", !.status = 1]
    /\ UNCHANGED <<pc, env, mapping, combos, idx, fs, rng, last, log, gen>>

\* main: the choice of what to import, and the task list of the routine
ImpDispatch ==
    /\ imp.pc = "created"
    /\ LET tasks == ImportTasks(imp.tool, imp.args)
       IN  imp' = [imp EXCEPT !.pc = "importing",
                              !.steps = IF CallsImport(imp.tool, imp.args)
                                        THEN Append(@, "import") ELSE @,
                              !.tasks = tasks,
                              !.outcomes = [i \in DOMAIN tasks |-> "pending"]]
    /\ UNCHANGED <<pc, env, mapping, combos, idx, fs, rng, last, log, gen>>

\* how a task can end: import_chunk_file returns after an attempt that met
\* one of Outcomes, or an exception leaves it (raised by its own except
\* branch, which nothing encloses)
TaskResults == Outcomes \cup {"raised"}

\* whether an exception that left import_chunk_file is caught where the
\* result is taken: the pooled importers wrap future.result() in
\* try/except, the sequential one calls import_chunk_file bare
CatchesTaskError(tool) == tool # "import_postgres_sequential"

\* one task runs import_chunk_file to its end and its result is taken: any
\* task not yet run for the pooled importers, the next in order for the
\* sequential one; `if success: success_count += 1` is run by the thread of
\* main alone
ImpRunTask ==
    /\ imp.pc = "importing"
    /\ \E i \in DOMAIN imp.tasks, o \in TaskResults :
          /\ imp.outcomes[i] = "pending"
          /\ imp.tool = "import_postgres_sequential" =>
                \A j \in 1..(i - 1) : imp.outcomes[j] # "pending"
          /\ imp' = [imp EXCEPT
                       !.outcomes[i] = o,
                       !.success_count =
                           IF Returns(imp.tool, o) THEN @ + 1 ELSE @,
                       !.pc = IF o = "raised" /\ ~CatchesTaskError(imp.tool)
                              THEN "crash" ELSE @,
                       !.status = IF o = "raised" /\ ~CatchesTaskError(imp.tool)
                                  THEN 1 ELSE @]
    /\ UNCHANGED <<pc, env, mapping, combos, idx, fs, rng, last, log, gen>>

\* main returns once every task has returned
ImpFinish ==
    /\ imp.pc = "importing"
    /\ \A i \in DOMAIN imp.tasks : imp.outcomes[i] # "pending"
    /\ imp' = [imp EXCEPT !.pc = "done"]
    /\ UNCHANGED <<pc, env, mapping, combos, idx, fs, rng, last, log, gen>>

\* one turn of `for attempt in range(max_retries)` of
\* MariaDBFastImporter.import_chunk_file
RetryAttempt ==
    /\ imp.pc = "call"
    /\ imp.call.returned = "running"
    /\ imp.call.attempt < imp.call.max_retries
    /\ \E o \in Outcomes :
          LET c == imp.call
              again == Retries(imp.tool, o, c.attempt, c.max_retries)
          IN  imp' = [imp EXCEPT !.call =
                        [c EXCEPT !.attempt = c.attempt + 1,
                                  !.history = Append(c.history, o),
                                  !.slept = IF c.attempt > 0
                                            THEN Append(c.slept, c.attempt)
                                            ELSE c.slept,
                                  !.returned =
                                      IF again THEN "running"
                                      ELSE IF Returns(imp.tool, o) THEN "True"
                                      ELSE "False"]]
    /\ UNCHANGED <<pc, env, mapping, combos, idx, fs, rng, last, log, gen>>

\* the `return False` after the loop, reached when range(max_retries) is over
RetryExhausted ==
    /\ imp.pc = "call"
    /\ imp.call.returned = "running"
    /\ imp.call.attempt >= imp.call.max_retries
    /\ imp' = [imp EXCEPT !.call.returned = "False"]
    /\ UNCHANGED <<pc, env, mapping, combos, idx, fs, rng, last, log, gen>>

\* the caller takes the result of the call: `if success: success_count += 1`
CallCollected ==
    /\ imp.pc = "call"
    /\ imp.call.returned \in {"True", "False"}
    /\ imp' = [imp EXCEPT !.pc = "collected",
                          !.success_count =
                              IF imp.call.returned = "True" THEN @ + 1 ELSE @]
    /\ UNCHANGED <<pc, env, mapping, combos, idx, fs, rng, last, log, gen>>

-----------------------------------------------------------------------------
(* generate_chunks.  gen holds one run: the arguments, what dsdgen does in *)
(* each chunk (whether it succeeds, and the tables it writes a file for),  *)
(* main's position, success_count, and the files main writes into the     *)
(* output directory.  A file is [name, rows]; the k-th of N dsdgen         *)
(* children names the file of a table <table>_<k>_<N>.dat.                 *)

RowsPerFile == 2    \* the rows dsdgen writes into each file

\* <table>_<child>_<parallel>.dat
ChunkFileName(table, child, parallel) ==
    [table |-> table, child |-> child, parallel |-> parallel, part |-> 0]

\* the rows of a table that child k generates
RowsIn(table, k) == [r \in 1..RowsPerFile |-> <<table, k, r>>]

\* the names of the files in chunk_<k>
ChunkDir(k) ==
    {ChunkFileName(t, k, gen.args.chunks) : t \in gen.present[k]}

\* the content of chunk_<k>/<name>, read only where chunk_file.exists()
ChunkFile(k, name) == RowsIn(name.table, k)

\* the content of the combined file: for chunk in 1..chunks, the file of
\* that name in chunk_<chunk> if there is one
CombinedOf(name) ==
    Concat([k \in 1..gen.args.chunks |->
              IF name \in ChunkDir(k) THEN ChunkFile(k, name) ELSE <<>>])

\* split_table_file: the parts of at most max_rows rows, in order
RECURSIVE SplitRows(_, _)
SplitRows(rows, max_rows) ==
    IF rows = <<>> THEN <<>>
    ELSE IF Len(rows) <= max_rows THEN <<rows>>
    ELSE <<SubSeq(rows, 1, max_rows)>>
         \o SplitRows(SubSeq(rows, max_rows + 1, Len(rows)), max_rows)

\* <stem>_part<NNN>.dat beside the file of the name
PartName(name, n) == [name EXCEPT !.part = n]

\* the part files main writes for a combined file: none unless
\* --max-rows-per-part is given and the file has more rows
PartsOf(name, rows) ==
    IF gen.args.max_rows # 0 /\ Len(rows) > gen.args.max_rows
    THEN LET parts == SplitRows(rows, gen.args.max_rows)
         IN  {[name |-> PartName(name, n), rows |-> parts[n]] : n \in DOMAIN parts}
    ELSE {}

\* the stem of the file of a table, one character for each table
TableStem(table) ==
    IF table = "customer_address" THEN <<"c">> ELSE <<"s">>

NoSplit ==
    [pc |-> "off", exists |-> FALSE, base_name |-> <<>>, lines |-> <<>>,
     max_rows_per_part |-> 0, read |-> 0, current_part |-> 0,
     row_count |-> 0, part_num |-> 0, parts |-> <<>>, written |-> <<>>]

NoGen ==
    [args |-> [chunks |-> 0, combine |-> FALSE, max_rows |-> 0],
     ok |-> <<>>, present |-> <<>>, pc |-> "off", success_count |-> 0,
     out |-> {}, split |-> NoSplit]

\* the executor runs run_dsdgen_chunk for every chunk; main counts the
\* results that are True
GenRunChunks ==
    /\ gen.pc = "start"
    /\ gen' = [gen EXCEPT !.pc = "generated",
                          !.success_count =
                              Cardinality({k \in DOMAIN gen.ok : gen.ok[k]})]
    /\ UNCHANGED <<pc, env, mapping, combos, idx, fs, rng, last, log, imp>>

\* `if args.combine_chunks and success_count == args.chunks:` with its body,
\* then print("Done!")
GenCombine ==
    /\ gen.pc = "generated"
    /\ gen' = [gen EXCEPT
                 !.pc = "done",
                 !.out = IF gen.args.combine /\ gen.success_count = gen.args.chunks
                         THEN UNION {{[name |-> f, rows |-> CombinedOf(f)]}
                                       \cup PartsOf(f, CombinedOf(f)) :
                                     f \in ChunkDir(1)}
                         ELSE {}]
    /\ UNCHANGED <<pc, env, mapping, combos, idx, fs, rng, last, log, imp>>

-----------------------------------------------------------------------------
(* split_table_file, one turn of its loop at a time.  gen.split holds the  *)
(* call: whether file_path exists, its lines, max_rows_per_part, the       *)
(* number of lines read, the locals current_part (0 for None, else the     *)
(* index in parts of the open file), row_count and part_num, the returned  *)
(* list parts, and what was written into each part.                        *)

MaxLines == 6          \* the most lines of a file given to split_table_file
MaxRowsPerPart == 3    \* the greatest max_rows_per_part

DecimalDigits == <<"0", "1", "2", "3", "4", "5", "6", "7", "8", "9">>

\* str(n) of a natural number
RECURSIVE Decimal(_)
Decimal(n) ==
    IF n < 10 THEN <<DecimalDigits[n + 1]>>
    ELSE Decimal(n \div 10) \o <<DecimalDigits[(n % 10) + 1]>>

\* the format :03d, zeros on the left up to three characters
RECURSIVE ZeroPad3(_)
ZeroPad3(s) == IF Len(s) >= 3 THEN s ELSE ZeroPad3(<<"0">> \o s)

\* f"{base_name}_part{part_num:03d}.dat"
part_path(base_name, part_num) ==
    base_name \o <<"_", "p", "a", "r", "t">> \o ZeroPad3(Decimal(part_num))
              \o <<".", "d", "a", "t">>

\* a part that is closed one line late
PartFullLate(row_count, max_rows_per_part) == row_count > max_rows_per_part

\* `if row_count >= max_rows_per_part:`
PartFull(row_count, max_rows_per_part) == row_count >= max_rows_per_part

\* `if not file_path.exists(): return []`, else the locals before the loop
SplitOpen ==
    /\ gen.pc = "split"
    /\ gen.split.pc = "called"
    /\ gen' = IF ~gen.split.exists
              THEN [gen EXCEPT !.split.pc = "returned"]
              ELSE [gen EXCEPT !.split.pc = "loop", !.split.part_num = 1]
    /\ UNCHANGED <<pc, env, mapping, combos, idx, fs, rng, last, log, imp>>

\* the body of `for line in infile:`
SplitLine ==
    /\ gen.pc = "split"
    /\ gen.split.pc = "loop"
    /\ gen.split.read < Len(gen.split.lines)
    /\ LET s == gen.split
           line == s.lines[s.read + 1]
           opens == s.current_part = 0
           parts == IF opens
                    THEN Append(s.parts, part_path(s.base_name, s.part_num))
                    ELSE s.parts
           written == IF opens THEN Append(s.written, <<>>) ELSE s.written
           current == IF opens THEN Len(parts) ELSE s.current_part
           row_count == (IF opens THEN 0 ELSE s.row_count) + 1
           full == PartFull(row_count, s.max_rows_per_part)
       IN  gen' = [gen EXCEPT !.split =
                     [s EXCEPT !.read = s.read + 1,
                               !.parts = parts,
                               !.written =
                                   [written EXCEPT ![current] = Append(@, line)],
                               !.row_count = row_count,
                               !.current_part = IF full THEN 0 ELSE current,
                               !.part_num = IF full THEN @ + 1 ELSE @]]
    /\ UNCHANGED <<pc, env, mapping, combos, idx, fs, rng, last, log, imp>>

\* the end of the file: `if current_part: current_part.close()`, return parts
SplitReturn ==
    /\ gen.pc = "split"
    /\ gen.split.pc = "loop"
    /\ gen.split.read = Len(gen.split.lines)
    /\ gen' = [gen EXCEPT !.split.pc = "returned", !.split.current_part = 0]
    /\ UNCHANGED <<pc, env, mapping, combos, idx, fs, rng, last, log, imp>>

-----------------------------------------------------------------------------
(* Inputs. *)

CatA == <<"a">>
CatB == <<"b">>
SchX == <<"x">>
SchY == <<"y">>
TabT == <<"t">>
TabU == <<"u">>

\* mapping resources of a run
SampleDocs ==
    { DictDoc(<<Item(StrVal(<<"p", "1">>),
                     ListVal(<<StrVal(<<"d", "1">>), StrVal(<<"d", "2">>)>>))>>),
      DictDoc(<<Item(StrVal(CatA), ListVal(<<StrVal(SchX)>>)),
                Item(StrVal(CatB), ListVal(<<StrVal(SchY)>>))>>),
      DictDoc(<<Item(StrVal(<<"a", ".", "b">>), ListVal(<<StrVal(SchX)>>)),
                Item(StrVal(CatA), ListVal(<<IntVal(1)>>))>>),
      DictDoc(<<Item(StrVal(CatA), ListVal(<<>>))>>),
      DictDoc(<<Item(StrVal(CatA), StrVal(<<"x", "y">>))>>),
      DictDoc(<<Item(StrVal(CatA), IntVal(1))>>),
      [root |-> "list", items |-> <<>>],
      [root |-> "invalid", items |-> <<>>] }

\* SELECT * FROM t JOIN u;
FileJoin ==
    File(<<"SELECT", " ", "*", " ", "FROM", " ", "t", " ", "JOIN", " ", "u", ";">>,
         Parsed(<<Stmt(<<>>, <<Table(<<>>, <<>>, TabT, FALSE),
                               Table(<<>>, <<>>, TabU, FALSE)>>)>>))

\* WITH r AS (SELECT * FROM t) SELECT * FROM R;
FileCte ==
    File(<<"WITH", " ", "r", " ", "AS", " ", "(", "SELECT", " ", "*", " ", "FROM",
           " ", "t", ")", "\n", "SELECT", " ", "*", " ", "FROM", " ", "R", ";", "\n">>,
         Parsed(<<Stmt(<<<<"r">>>>, <<Table(<<>>, <<>>, <<"R">>, FALSE),
                                      Table(<<>>, <<>>, TabT, FALSE)>>)>>))

\* a comment line, then SELECT * FROM a.x.t; SELECT * FROM x.u, t;
FileTwoStatements ==
    File(<<"-", "-", " ", "q", "\n",
           "SELECT", " ", "*", " ", "FROM", " ", "a", ".", "x", ".", "t", ";", "\n",
           " ", "-", "-", "\n",
           "SELECT", " ", "*", " ", "FROM", " ", "x", ".", "u", ",", " ", "t", ";">>,
         Parsed(<<Stmt(<<>>, <<Table(CatA, SchX, TabT, FALSE)>>),
                  Stmt(<<>>, <<Table(<<>>, SchX, TabU, FALSE),
                               Table(<<>>, <<>>, TabT, FALSE)>>)>>))

\* SELECT * FROM (t;     an unmatched parenthesis, after a comment line
FileTruncated ==
    File(<<"-", "-", "c", "\n", "SELECT", " ", "*", " ", "FROM", " ", "(", "t", ";",
           " ", "\n">>,
         ParseFails("ParseError"))

\* SELECT 'a;            a string literal that is not closed
FileOpenString ==
    File(<<"SELECT", " ", "'", "a", ";">>, ParseFails("TokenError"))

\* a file of one comment line: sqlglot.parse("") is [None]
FileCommentOnly ==
    File(<<"-", "-", " ", "q", "\n">>, Parsed(<<NoneStmt>>))

\* an unmatched parenthesis in a text with a blank first line, an indented
\* line, runs of blanks and a blank before the closing semicolon
FileRagged ==
    File(<<"\n", " ", "SELECT", " ", " ", "(", "\t", "\n", "t", " ", ";", "\n">>,
         ParseFails("ParseError"))

SampleFiles ==
    {FileJoin, FileCte, FileTwoStatements, FileTruncated, FileOpenString,
     FileCommentOnly, FileRagged}

-----------------------------------------------------------------------------
(* The run of main. *)

Init ==
    /\ pc = "start"
    /\ env \in [inputDirOk : BOOLEAN, outputDir : {"none", "same", "other"},
                data : SampleDocs, files : SeqsUpTo(SampleFiles, MaxFiles)]
    /\ mapping = <<>>
    /\ combos = <<>>
    /\ idx = 0
    /\ fs = <<>>
    /\ rng = [id |-> 0, pos |-> 0]
    /\ last = NoLast
    /\ log = <<>>
    /\ imp = NoImp
    /\ gen = NoGen

Next ==
    \/ MainStart
    \/ LoadMapping
    \/ BuildPool
    \/ GlobFiles
    \/ ProcessFile
    \/ Finish

Spec == Init /\ [][Next]_vars

-----------------------------------------------------------------------------
(* main on generated mapping resources, with an empty input directory. *)

GenKeys == {StrVal(CatA), IntVal(1), StrVal(<<"1">>)}

GenValues ==
    {ListVal(es) : es \in SeqsUpTo({StrVal(SchX), StrVal(SchY)}, MaxSchemas)}
    \cup {StrVal(<<"x", "y">>), IntVal(2)}

GenDocs ==
    {DictDoc(items) : items \in
        {s \in SeqsUpTo([key : GenKeys, val : GenValues], MaxCatalogs) :
            \A i, j \in DOMAIN s : s[i].key = s[j].key => i = j}}
    \cup {[root |-> "list", items |-> <<>>], [root |-> "invalid", items |-> <<>>]}

InitMapping ==
    /\ pc = "start"
    /\ env \in [inputDirOk : {TRUE}, outputDir : {"none"}, data : GenDocs,
                files : {<<>>}]
    /\ mapping = <<>>
    /\ combos = <<>>
    /\ idx = 0
    /\ fs = <<>>
    /\ rng = [id |-> 0, pos |-> 0]
    /\ last = NoLast
    /\ log = <<>>
    /\ imp = NoImp
    /\ gen = NoGen

NextMapping ==
    \/ MainStart
    \/ LoadMapping
    \/ BuildPool
    \/ GlobFiles

SpecMapping == InitMapping /\ [][NextMapping]_vars

-----------------------------------------------------------------------------
(* main's loop on one generated file, from the pool of a sample mapping. *)

\* unqualified nodes of three names, one of them with an alias, nodes named
\* "t" with each kind of qualifier, one of them with an alias, and a CTE
\* definition target
GenNodes ==
    {Table(<<>>, <<>>, n, FALSE) : n \in {TabT, <<"T">>}}
    \cup {Aliased(Table(<<>>, <<>>, TabU, FALSE), <<"o">>)}
    \cup {Table(<<>>, SchX, TabT, FALSE),
          Aliased(Table(CatA, SchX, TabT, FALSE), <<"c">>),
          Table(CatA, <<>>, TabT, FALSE)}
    \cup {Table(<<>>, <<>>, TabU, TRUE)}

GenCtes == {<<>>, <<<<"T">>>>}

\* a column k of each table node, named through the alias where there is one
ColumnsOf(ts) ==
    [i \in DOMAIN ts |->
        (IF ts[i].alias # <<>> THEN ts[i].alias ELSE ts[i].name) \o <<".", "k">>]

\* the statements of n table nodes, and None when n = 0
GenStmts(n) ==
    {Selecting(Stmt(c, ts), ColumnsOf(ts)) : c \in GenCtes, ts \in [1..n -> GenNodes]}
    \cup (IF n = 0 THEN {NoneStmt} ELSE {})

RECURSIVE Sum(_)
Sum(s) == IF s = <<>> THEN 0 ELSE Head(s) + Sum(Tail(s))

RECURSIVE TreesOfShape(_)
TreesOfShape(sh) ==
    IF sh = <<>> THEN {<<>>}
    ELSE LET rests == TreesOfShape(Tail(sh))
         IN  {<<s>> \o rest : s \in GenStmts(Head(sh)), rest \in rests}

\* the table counts of 1..MaxStmts statements with at most MaxTables nodes
GenShapes ==
    {q \in SeqsUpTo(0..MaxTables, MaxStmts) : q # <<>> /\ Sum(q) <= MaxTables}

RewriteDocs ==
    { DictDoc(<<Item(StrVal(CatA), ListVal(<<StrVal(SchX)>>)),
                Item(StrVal(CatB), ListVal(<<StrVal(SchY)>>))>>),
      DictDoc(<<Item(StrVal(<<"a", ".", "b">>), ListVal(<<StrVal(SchX)>>)),
                Item(StrVal(CatA), ListVal(<<IntVal(1)>>))>>) }

InitRewrite ==
    /\ pc = "loop"
    /\ \E sh \in GenShapes :
          env \in [inputDirOk : {TRUE}, outputDir : {"none"}, data : RewriteDocs,
                   files : {<<File(<<"sql">>, Parsed(ss))>> : ss \in TreesOfShape(sh)}]
    /\ mapping = load_mapping(env.data).mapping
    /\ combos = BuildCombos(mapping)
    /\ idx = 0
    /\ fs = <<>>
    /\ rng = [id |-> 0, pos |-> 0]
    /\ last = NoLast
    /\ log = <<>>
    /\ imp = NoImp
    /\ gen = NoGen

NextRewrite ==
    \/ ProcessFileNoIOError
    \/ Finish

SpecRewrite == InitRewrite /\ [][NextRewrite]_vars

\* the same runs, for the claims about the draws of rng.choice
SpecDraws == InitRewrite /\ [][ProcessFileNoIOError \/ Finish]_vars

-----------------------------------------------------------------------------
(* main's loop on one generated file of one statement with subqueries: the *)
(* statement's CTE is defined by the outermost query or by a subquery, and *)
(* its table nodes stand in the outermost query or in a subquery.          *)

\* the outermost query 0 and two subqueries of it, neither inside the other
Queries == 0..2

ScopedNodes ==
    {Within(Table(<<>>, <<>>, n, FALSE), q) : n \in {TabT, TabU}, q \in Queries}
    \cup {Table(<<>>, SchX, TabT, FALSE)}

ScopedStmts ==
    UNION {{Nested(Stmt(<<c>>, ts), <<q>>) :
              c \in {<<"T">>, <<"r">>}, q \in Queries, ts \in [1..n -> ScopedNodes]}
           : n \in 1..MaxTables}

InitScopes ==
    /\ pc = "loop"
    /\ env \in [inputDirOk : {TRUE}, outputDir : {"none"}, data : RewriteDocs,
                files : {<<File(<<"sql">>, Parsed(<<st>>))>> : st \in ScopedStmts}]
    /\ mapping = load_mapping(env.data).mapping
    /\ combos = BuildCombos(mapping)
    /\ idx = 0
    /\ fs = <<>>
    /\ rng = [id |-> 0, pos |-> 0]
    /\ last = NoLast
    /\ log = <<>>
    /\ imp = NoImp
    /\ gen = NoGen

SpecScopes == InitScopes /\ [][NextRewrite]_vars

-----------------------------------------------------------------------------
(* main's loop on one file of generated text, to see what                  *)
(* strip_comments_and_semicolon makes of it.  What sqlglot makes of the    *)
(* cleaned text does not matter here: it is rejected with a ParseError or  *)
(* parsed into a None statement.                                           *)

MaxText == 5        \* units of a generated text

\* a dash, a space, a line end, a semicolon and a word
TextUnits == {"-", " ", "\n", ";", "q"}

GenTexts == SeqsUpTo(TextUnits, MaxText)

InitClean ==
    /\ pc = "loop"
    /\ env \in [inputDirOk : {TRUE}, outputDir : {"none"}, data : {CHOOSE d \in RewriteDocs : TRUE},
                files : {<<File(text, parse)>> :
                            text \in GenTexts,
                            parse \in {ParseFails("ParseError"), Parsed(<<NoneStmt>>)}}]
    /\ mapping = load_mapping(env.data).mapping
    /\ combos = BuildCombos(mapping)
    /\ idx = 0
    /\ fs = <<>>
    /\ rng = [id |-> 0, pos |-> 0]
    /\ last = NoLast
    /\ log = <<>>
    /\ imp = NoImp
    /\ gen = NoGen

SpecClean == InitClean /\ [][NextRewrite]_vars

-----------------------------------------------------------------------------
(* The other programs run without main of distribute.py. *)

MainOff ==
    /\ pc = "off"
    /\ env = [inputDirOk |-> FALSE, outputDir |-> "none",
              data |-> [root |-> "invalid", items |-> <<>>], files |-> <<>>]
    /\ mapping = <<>>
    /\ combos = <<>>
    /\ idx = 0
    /\ fs = <<>>
    /\ rng = [id |-> 0, pos |-> 0]
    /\ last = NoLast
    /\ log = <<>>

\* the arguments an importer accepts: one of --chunks N and --combined-data
\* (chunks 0 stands for None and for 0, which main tests alike)
ImporterArgs ==
    {a \in [chunks : 0..MaxChunks, combined : BOOLEAN, test : BOOLEAN] :
        a.combined => a.chunks = 0}

InitImport ==
    /\ MainOff
    /\ gen = NoGen
    /\ \E tool \in Tools, a \in ImporterArgs, connects \in BOOLEAN,
          k \in DOMAIN SchemaFiles :
          imp = [NoImp EXCEPT !.tool = tool, !.args = a,
                              !.db = [connects |-> connects,
                                      schema |-> SchemaFiles[k]],
                              !.pc = "start"]

NextImport ==
    \/ ImpTestConnection
    \/ ImpCreateTables
    \/ ImpDispatch
    \/ ImpRunTask
    \/ ImpFinish

SpecImport == InitImport /\ [][NextImport]_vars

\* one call of MariaDBFastImporter.import_chunk_file
InitRetry ==
    /\ MainOff
    /\ gen = NoGen
    /\ \E t \in DOMAIN TPCDS_TABLES, m \in 0..MaxRetries :
          imp = [NoImp EXCEPT !.tool = "import_mariadb_fast", !.pc = "call",
                              !.call = [NoCall EXCEPT !.table = TPCDS_TABLES[t],
                                                      !.max_retries = m,
                                                      !.returned = "running"]]

NextRetry ==
    \/ RetryAttempt
    \/ RetryExhausted

\* the thread that runs the call is scheduled and time.sleep returns
SpecRetry == InitRetry /\ [][NextRetry]_vars /\ WF_vars(NextRetry)

\* one call of import_chunk_file of any importer, with its result taken by
\* the caller: the importers other than import_mariadb_fast make one attempt
InitCall ==
    /\ MainOff
    /\ gen = NoGen
    /\ \E tool \in Tools, t \in DOMAIN TPCDS_TABLES, m \in 0..MaxRetries :
          /\ tool # "import_mariadb_fast" => m = 1
          /\ imp = [NoImp EXCEPT !.tool = tool, !.pc = "call",
                                 !.call = [NoCall EXCEPT !.table = TPCDS_TABLES[t],
                                                         !.max_retries = m,
                                                         !.returned = "running"]]

NextCall ==
    \/ RetryAttempt
    \/ RetryExhausted
    \/ CallCollected

SpecCall == InitCall /\ [][NextCall]_vars

\* one run of generate_chunks
InitGenerate ==
    /\ MainOff
    /\ imp = NoImp
    /\ \E n \in 1..MaxChunks :
          \E ok \in [1..n -> BOOLEAN], present \in [1..n -> SUBSET Range(TPCDS_TABLES)],
             combine \in BOOLEAN, max_rows \in 0..RowsPerFile :
              gen = [NoGen EXCEPT !.args = [chunks |-> n, combine |-> combine,
                                            max_rows |-> max_rows],
                                  !.ok = ok, !.present = present, !.pc = "start"]

NextGenerate ==
    \/ GenRunChunks
    \/ GenCombine

SpecGenerate == InitGenerate /\ [][NextGenerate]_vars

\* one call of split_table_file: a missing file, or a file of up to
\* MaxLines lines, the k-th of which is k
InitSplit ==
    /\ MainOff
    /\ imp = NoImp
    /\ \E exists \in BOOLEAN, n \in 0..MaxLines, m \in 1..MaxRowsPerPart,
          t \in DOMAIN TPCDS_TABLES :
          /\ ~exists => n = 0
          /\ gen = [NoGen EXCEPT
                      !.pc = "split",
                      !.split = [NoSplit EXCEPT
                                   !.pc = "called",
                                   !.exists = exists,
                                   !.base_name = TableStem(TPCDS_TABLES[t]),
                                   !.lines = [k \in 1..n |-> k],
                                   !.max_rows_per_part = m]]

NextSplit ==
    \/ SplitOpen
    \/ SplitLine
    \/ SplitReturn

SpecSplit == InitSplit /\ [][NextSplit]_vars

-----------------------------------------------------------------------------
(* Claims about rewrite_sql, read off the last loop body: last.parsed are  *)
(* the trees as parsed, last.trees the trees as serialized.                *)

\* the last loop body called rewrite_sql, the text parsed and the call returned
RewriteReturned ==
    last.file # 0 /\ last.io # "read" /\ last.outcome = "ok" /\ last.raised = "none"

\* the table nodes of the last file, as <<statement, table>> positions
Nodes ==
    {p \in (DOMAIN last.parsed) \X (1..MaxTables + 1) :
        p[2] \in DOMAIN last.parsed[p[1]].tables}

NodeIn(p) == last.parsed[p[1]].tables[p[2]]
NodeOut(p) == last.trees[p[1]].tables[p[2]]

Unqualified(n) == n.catalog = <<>> /\ n.db = <<>>

\* the node's bare name is, whatever the case, a CTE name of its statement
NamesCte(p) ==
    \E j \in DOMAIN last.parsed[p[1]].ctes :
        Lower(last.parsed[p[1]].ctes[j]) = Lower(NodeIn(p).name)

\* a draw was made for the node
DrewFor(p) == \E c \in DOMAIN last.drawnFor : last.drawnFor[c] = p

\* C1 as stated: after rewrite_sql parsed a file, every table reference that
\* was unqualified in the input carries a catalog and a schema in the output.
C1_EveryUnqualifiedPrefixed ==
    RewriteReturned =>
        \A p \in Nodes :
            Unqualified(NodeIn(p)) =>
                NodeOut(p).catalog # <<>> /\ NodeOut(p).db # <<>>

\* C1 amended: after rewrite_sql parsed a file and returned, every table
\* reference that was unqualified in the input, is not a CTE definition
\* target and does not bear (case-insensitively) a CTE name of its statement
\* carries a catalog and a schema in the output, and is written
\* catalog.schema.table.
C1_UnqualifiedNonCtePrefixed ==
    RewriteReturned =>
        \A p \in Nodes :
            (Unqualified(NodeIn(p)) /\ ~NodeIn(p).parentIsCTE /\ ~NamesCte(p)) =>
                /\ NodeOut(p).catalog # <<>>
                /\ NodeOut(p).db # <<>>
                /\ TableSql(NodeOut(p)) =
                     NodeOut(p).catalog \o <<".">> \o NodeOut(p).db \o <<".">>
                     \o TableSql(NodeIn(p))

\* C1's case: a file with an unqualified table that was prefixed and an
\* unqualified use of a CTE name that was not
C1_Witness ==
    /\ RewriteReturned
    /\ \E p \in Nodes :
          /\ Unqualified(NodeIn(p)) /\ ~NodeIn(p).parentIsCTE /\ ~NamesCte(p)
          /\ ~Unqualified(NodeOut(p))
    /\ \E p \in Nodes :
          Unqualified(NodeIn(p)) /\ NamesCte(p) /\ Unqualified(NodeOut(p))

\* C2: a table node that carries a catalog or a schema before the rewrite
\* (a schema alone included) keeps both attributes as they were, and no
\* random draw is made for it.
C2_QualifiedUntouched ==
    (last.file # 0 /\ last.outcome = "ok") =>
        \A p \in Nodes :
            ~Unqualified(NodeIn(p)) =>
                /\ NodeOut(p).catalog = NodeIn(p).catalog
                /\ NodeOut(p).db = NodeIn(p).db
                /\ ~DrewFor(p)

\* C2's case: a node with a schema and no catalog was passed over while a
\* draw was made for another node of the file
C2_Witness ==
    /\ RewriteReturned
    /\ \E p \in Nodes : NodeIn(p).catalog = <<>> /\ NodeIn(p).db # <<>>
    /\ last.drawnFor # <<>>

\* C3: no table reference whose bare name equals, case-insensitively, a CTE
\* name of its statement is given a catalog or a schema, no draw is made for
\* it, and the CTE names themselves and the CTE definition targets are left
\* as they were.
C3_CteNamesNeverQualified ==
    (last.file # 0 /\ last.outcome = "ok") =>
        /\ \A p \in Nodes :
              (NamesCte(p) \/ NodeIn(p).parentIsCTE) =>
                  NodeOut(p) = NodeIn(p) /\ ~DrewFor(p)
        /\ \A s \in DOMAIN last.parsed : last.trees[s].ctes = last.parsed[s].ctes

\* C3's case: a statement with CTE "T" and an unqualified table "t", left
\* unqualified, while another table of the file was prefixed
C3_Witness ==
    /\ RewriteReturned
    /\ \E p \in Nodes :
          /\ Unqualified(NodeIn(p)) /\ NamesCte(p)
          /\ \E j \in DOMAIN last.parsed[p[1]].ctes :
                last.parsed[p[1]].ctes[j] # NodeIn(p).name
          /\ Unqualified(NodeOut(p))
    /\ last.drawnFor # <<>>

\* C4: a table node that none of the three skip rules passes over ends with
\* the catalog and the schema of one entry of the pool, the entry drawn for
\* it; a table beside a CTE of another name is such a node.
C4_PrefixIsOnePoolEntry ==
    (last.file # 0 /\ last.outcome = "ok") =>
        \A p \in Nodes :
            (/\ \A r \in 1..p[1] : ~last.parsed[r].isNone
             /\ Unqualified(NodeIn(p)) /\ ~NodeIn(p).parentIsCTE /\ ~NamesCte(p)) =>
                \E c \in DOMAIN last.draws :
                    /\ last.drawnFor[c] = p
                    /\ last.draws[c] \in Range(last.poolBefore)
                    /\ last.draws[c] = Combo(NodeOut(p).catalog, NodeOut(p).db)
                    /\ NodeOut(p).catalog # <<>>
                    /\ NodeOut(p).db # <<>>

\* C4's case: in a statement that defines a CTE, an unqualified table of
\* another name was prefixed, and two nodes of the file drew different entries
C4_Witness ==
    /\ RewriteReturned
    /\ \E p \in Nodes :
          /\ last.parsed[p[1]].ctes # <<>>
          /\ Unqualified(NodeIn(p)) /\ ~NamesCte(p) /\ ~Unqualified(NodeOut(p))
    /\ \E c, d \in DOMAIN last.draws : last.draws[c] # last.draws[d]

-----------------------------------------------------------------------------
(* Claims about the run of main. *)

\* the resource is not an object whose every value is an array
NotObjectOfArrays(doc) ==
    \/ doc.root = "list"
    \/ /\ doc.root = "dict"
       /\ \E i \in DOMAIN doc.items : doc.items[i].val.t # "list"

\* the resource is an object of arrays that are all empty
NoSchemaAtAll(doc) ==
    /\ doc.root = "dict"
    /\ \A i \in DOMAIN doc.items :
          doc.items[i].val.t = "list" /\ doc.items[i].val.elems = <<>>

\* C5 as stated: when the cleaned text of a file fails to parse (on a run
\* with a well-formed mapping and no failing file operation), the text
\* written for the file is the cleaned input, a warning is printed, and the
\* loop goes on to the next file.
C5_ParseFailureIsolated ==
    (/\ last.file # 0 /\ last.io = "ok" /\ last.outcome # "ok"
     /\ ~NotObjectOfArrays(env.data)) =>
        /\ last.raised = "none"
        /\ last.warned
        /\ last.rewritten = last.cleaned
        /\ pc \in {"loop", "done"}
        /\ idx = last.file
        /\ \E i \in DOMAIN fs :
              fs[i].file = last.file /\ fs[i].kind = "dst"
              /\ fs[i].how = "passthrough"

\* C6 as stated: with a malformed mapping resource, or one that yields an
\* empty pool, the run aborts before any file is processed: no output file
\* and no single-line file is ever written.
C6_BadMappingAbortsBeforeFiles ==
    (\/ env.data.root = "invalid"
     \/ NotObjectOfArrays(env.data)
     \/ NoSchemaAtAll(env.data)) =>
        fs = <<>>

\* C7 as stated, counting any failure as the configuration error:
\* load_mapping returns no mapping for a resource that is not an object of
\* arrays, so main never gets past the call.
C7_NotObjectOfArraysRejected ==
    (NotObjectOfArrays(env.data) /\ pc \notin {"start", "load"}) =>
        /\ pc \in {"exit", "crash"}
        /\ mapping = <<>>
        /\ \A i \in DOMAIN log : log[i][1] = "Mapping must be a dict"

\* main has built the pool and not yet entered the loop
PoolJustBuilt ==
    \/ pc = "glob"
    \/ /\ pc = "exit"
       /\ log # <<>>
       /\ log[Len(log)][1] \in {"Mapping contains no combinations",
                                "No .sql files found"}

\* the number of schemas listed under the first n catalogs of the mapping
RECURSIVE SchemasBefore(_)
SchemasBefore(n) ==
    IF n = 0 THEN 0 ELSE SchemasBefore(n - 1) + Len(mapping[n][2])

\* C8: the pool as built holds, catalog after catalog in mapping order, one
\* entry "c.s" for each schema s of c's own list in list order, and nothing
\* else: its length is the sum of the lengths of the schema lists.
C8_PoolIsOwnSchemasInOrder ==
    PoolJustBuilt =>
        /\ Len(combos) = SchemasBefore(Len(mapping))
        /\ \A i \in DOMAIN mapping :
              \A j \in DOMAIN mapping[i][2] :
                  combos[SchemasBefore(i - 1) + j]
                    = mapping[i][1] \o <<".">> \o mapping[i][2][j]

\* C8's case: two catalogs with different, non-empty schema lists
C8_Witness ==
    /\ pc = "glob"
    /\ Len(mapping) = 2
    /\ mapping[1][2] # <<>> /\ mapping[2][2] # <<>>
    /\ Range(mapping[1][2]) \cap Range(mapping[2][2]) = {}
    /\ Len(mapping[1][2]) # Len(mapping[2][2])

Count(e, seq) == Cardinality({i \in DOMAIN seq : seq[i] = e})

\* C9 as stated: once built, the pool keeps its elements in their order.
C9_PoolNeverChanges ==
    pc \in {"glob", "loop", "done", "crash"} => combos = BuildCombos(mapping)

\* C9 amended: once built, the pool keeps its elements but not their order:
\* after any number of files it has the length it was built with and holds
\* each entry as many times as it was built with.
C9_PoolKeepsItsEntries ==
    pc \in {"glob", "loop", "done", "crash"} =>
        /\ Len(combos) = Len(BuildCombos(mapping))
        /\ \A e \in Range(combos) \cup Range(BuildCombos(mapping)) :
              Count(e, combos) = Count(e, BuildCombos(mapping))

\* C9's case: two files were processed and the pool is in another order
C9_Witness ==
    /\ pc = "done"
    /\ idx >= 2
    /\ combos # BuildCombos(mapping)

Calls == IF last.io = "read" THEN last.file - 1 ELSE last.file

-----------------------------------------------------------------------------
(* Claims about the files main writes. *)

\* src of the k-th file of sql_files
SrcPath(k) == [dir |-> "in", stem |-> k, suffix |-> ".sql"]

\* C11 as stated: when the output directory is the input directory, by
\* default or because --output-dir names it, every primary output goes to
\* <stem>_mod.sql and no input file is overwritten by it.
C11_SameDirKeepsOriginals ==
    env.outputDir \in {"none", "same"} =>
        \A i \in DOMAIN fs :
            fs[i].kind = "dst" =>
                /\ fs[i].path.suffix = "_mod.sql"
                /\ \A k \in DOMAIN env.files : fs[i].path # SrcPath(k)

\* the loop body of the last file ran to its end
BodyCompleted == last.file # 0 /\ idx = last.file /\ pc \in {"loop", "done"}

\* the units of s that are not blank, in order
NonBlank(s) == SelectSeq(s, LAMBDA c : ~IsSpace(c))

\* the place in s of its k-th unit that is not blank
PlaceOf(s, k) ==
    CHOOSE i \in DOMAIN s :
        ~IsSpace(s[i]) /\ Cardinality({j \in 1..i : ~IsSpace(s[j])}) = k

\* whether the k-th non-blank unit of s starts a word: a blank is before it
StartsWord(s, k) == PlaceOf(s, k) > 1 /\ IsSpace(s[PlaceOf(s, k) - 1])

\* one is text with every run of blanks collapsed to one space and no blank
\* at either end
Collapses(one, text) ==
    /\ NonBlank(one) = NonBlank(text)
    /\ \A i \in DOMAIN one :
          IsSpace(one[i]) =>
              /\ one[i] = " "
              /\ 1 < i /\ i < Len(one)
              /\ ~IsSpace(one[i + 1])
    /\ \A k \in 2..Len(NonBlank(text)) : StartsWord(one, k) = StartsWord(text, k)
    /\ one # <<>> => ~IsSpace(one[1])

-----------------------------------------------------------------------------
(* Claims about the text rewrite_sql returns. *)

\* the length of the serialization of the s-th statement of the last file
SqlLen(s) == Len(StmtSql(last.trees[s]))

\* where the s-th statement starts in a text that holds the statements
\* before it, each followed by a two-unit separator
StartOf(s) == 1 + Sum([r \in 1..(s - 1) |-> SqlLen(r) + 2])

\* C13: when a file parsed into n statements and rewrite_sql returned, the
\* text returned is the n serialized statements in their parsed order with
\* ";\n" between each two neighbours, n - 1 times in all, and nothing after
\* the last statement.
C13_StatementsJoinedInOrder ==
    RewriteReturned =>
        LET n == Len(last.parsed)
            out == last.rewritten
        IN  /\ Len(last.trees) = n
            /\ Len(out) = Sum([s \in 1..n |-> SqlLen(s)]) + 2 * (n - 1)
            /\ \A s \in 1..n :
                  /\ SubSeq(out, StartOf(s), StartOf(s) + SqlLen(s) - 1)
                       = StmtSql(last.trees[s])
                  /\ last.trees[s].ctes = last.parsed[s].ctes
                  /\ [i \in DOMAIN last.trees[s].tables |->
                        last.trees[s].tables[i].name]
                       = [i \in DOMAIN last.parsed[s].tables |->
                            last.parsed[s].tables[i].name]
            /\ \A s \in 2..n :
                  out[StartOf(s) - 2] = ";" /\ out[StartOf(s) - 1] = "\n"
            /\ Cardinality({i \in DOMAIN out : out[i] = ";"}) = n - 1

\* C13's case: a file of two statements that serialize differently
C13_Witness ==
    /\ RewriteReturned
    /\ BodyCompleted
    /\ Len(last.parsed) = 2
    /\ StmtSql(last.trees[1]) # StmtSql(last.trees[2])
    /\ last.trees[2].tables # <<>>

-----------------------------------------------------------------------------
(* Claims about failing file operations. *)

\* the read or a write of the last file failed
FileOperationFailed ==
    /\ last.file # 0
    /\ last.io # "ok"
    /\ last.io = "read" \/ last.raised = "none"

\* C14: when reading or writing file k fails the run ends there with an
\* error: k is not counted as done, nothing is written for a later file,
\* what the failed operation was to write is not there, "All done." is never
\* printed, and main takes no further step.
C14_FileErrorIsFatal ==
    /\ [](FileOperationFailed =>
            /\ pc = "crash"
            /\ idx = last.file - 1
            /\ \A i \in DOMAIN fs : fs[i].file <= last.file
            /\ \A i \in DOMAIN fs :
                  fs[i].file = last.file =>
                      last.io = "single" /\ fs[i].kind = "dst"
            /\ \A i \in DOMAIN log :
                  log[i][1] # "All done." /\ log[i] # <<"written", last.file>>)
    /\ [][~FileOperationFailed]_vars

\* C14's case: of two files, the first was read and rewritten and the write
\* of its output failed
C14_Witness ==
    /\ FileOperationFailed
    /\ last.io = "write"
    /\ last.file = 1
    /\ Len(env.files) = 2
    /\ last.rewritten # <<>>
    /\ pc = "crash"

-----------------------------------------------------------------------------
(* Claims about what rewrite_sql leaves alone. *)

\* a table node without its two qualifiers
Unprefixed(t) == [t EXCEPT !.catalog = <<>>, !.db = <<>>]

\* C15: the trees rewrite_sql serializes differ from the trees parsed in
\* nothing but the catalog and the schema of table nodes: the bare name, the
\* alias and the place of every table node, every column reference and every
\* CTE name are the same, and an alias is written after its table as before.
C15_OnlyQualifiersChange ==
    (last.file # 0 /\ last.outcome = "ok") =>
        /\ Len(last.trees) = Len(last.parsed)
        /\ \A s \in DOMAIN last.parsed :
              /\ [last.trees[s] EXCEPT !.tables = <<>>]
                   = [last.parsed[s] EXCEPT !.tables = <<>>]
              /\ Len(last.trees[s].tables) = Len(last.parsed[s].tables)
        /\ \A p \in Nodes :
              /\ Unprefixed(NodeOut(p)) = Unprefixed(NodeIn(p))
              /\ NodeIn(p).alias # <<>> =>
                    SubSeq(TableSql(NodeOut(p)),
                           Len(TableSql(NodeOut(p))) - Len(NodeIn(p).alias) - 1,
                           Len(TableSql(NodeOut(p))))
                      = <<"AS", " ">> \o NodeIn(p).alias

\* C15's case: in a statement with a CTE and column references, a table with
\* an alias was prefixed
C15_Witness ==
    /\ RewriteReturned
    /\ \E p \in Nodes :
          /\ NodeIn(p).alias # <<>>
          /\ Unqualified(NodeIn(p))
          /\ ~Unqualified(NodeOut(p))
          /\ last.parsed[p[1]].ctes # <<>>
          /\ last.parsed[p[1]].columns # <<>>

\* the CTEs of the node's statement that bear, whatever the case, the bare
\* name of the node and are defined by a subquery the node does not stand in
CtesOutOfScope(p) ==
    {j \in DOMAIN last.parsed[p[1]].ctes :
        /\ Lower(last.parsed[p[1]].ctes[j]) = Lower(NodeIn(p).name)
        /\ last.parsed[p[1]].cteScopes[j] # 0
        /\ last.parsed[p[1]].cteScopes[j] # NodeIn(p).scope}

\* C20: a CTE name defined inside a subquery exempts every unqualified table
\* of that bare name in the whole statement: a table outside the subquery
\* that defines the CTE stays unqualified and no draw is made for it.
C20_CteNamesFlatOverStatement ==
    (last.file # 0 /\ last.outcome = "ok") =>
        \A p \in Nodes :
            (Unqualified(NodeIn(p)) /\ CtesOutOfScope(p) # {}) =>
                /\ Unqualified(NodeOut(p))
                /\ ~DrewFor(p)
                /\ TableSql(NodeOut(p)) = NodeIn(p).name

\* C20's case: a subquery defines the CTE "T", a table "t" of the outermost
\* query stayed unqualified, and a table "u" of the same statement was prefixed
C20_Witness ==
    /\ RewriteReturned
    /\ \E p \in Nodes :
          /\ NodeIn(p).name = TabT
          /\ NodeIn(p).scope = 0
          /\ CtesOutOfScope(p) # {}
          /\ Unqualified(NodeOut(p))
    /\ \E p \in Nodes : NodeIn(p).name = TabU /\ ~Unqualified(NodeOut(p))

-----------------------------------------------------------------------------
(* Claims about the states of a file. *)

\* C19 as stated: on a run with a well-formed mapping, a file whose read and
\* writes succeed and whose text holds a statement goes through Loaded,
\* Cleaned, Parsed, Rewritten, Serialized, Written, or, when its text fails
\* to parse, through Loaded, Cleaned, Parsed-failed, Serialized(passthrough),
\* Written with no shuffle, no draw and no change of a node; no state is
\* entered twice; and the failure of a file leaves the run going: the file
\* is counted as done and the loop is at the next file.
C19_FileStateSequence ==
    (/\ last.file # 0
     /\ last.io = "ok"
     /\ ~NotObjectOfArrays(env.data)
     /\ \A s \in DOMAIN last.parsed : ~last.parsed[s].isNone) =>
        /\ \/ /\ last.outcome = "ok"
              /\ last.states = <<"Loaded", "Cleaned", "Parsed", "Rewritten",
                                 "Serialized", "Written">>
           \/ /\ last.outcome # "ok"
              /\ last.states = <<"Loaded", "Cleaned", "Parsed-failed",
                                 "Serialized(passthrough)", "Written">>
              /\ combos = last.poolBefore
              /\ rng.id = last.rngBefore
              /\ last.draws = <<>>
              /\ last.trees = last.parsed
        /\ \A i, j \in DOMAIN last.states : last.states[i] = last.states[j] => i = j
        /\ idx = last.file
        /\ pc \in {"loop", "done"}

-----------------------------------------------------------------------------
(* Claims about the importers. *)

\* C16 as stated: in each of the four importers, a run with --combined-data
\* that passed the connection test and create_tables and came to its end has
\* attempted one import of /data/<table>.dat for each table of TPCDS_TABLES.
C16_CombinedDataImported ==
    (imp.args.combined /\ imp.pc = "done") =>
        \A t \in DOMAIN TPCDS_TABLES :
            \E i \in DOMAIN imp.tasks :
                /\ imp.tasks[i].path = CombinedPath(TPCDS_TABLES[t])
                /\ imp.tasks[i].table = TPCDS_TABLES[t]
                /\ imp.outcomes[i] # "pending"

\* the call has returned and the caller has taken its result
Collected == imp.pc = "collected"

\* the attempt met an error whose message holds a text of a missing file
MissingFileError(tool, o) ==
    \/ o \in {"No such file", "cannot be opened"}
    \/ o = "doesn't exist" /\ tool # "import_postgres_sequential"

\* C26 as stated: in every importer an attempt that meets a missing-file
\* error makes import_chunk_file return True, which is counted, and an
\* attempt that meets any other error makes it return False, which is not.
C26_OtherErrorsReturnFalse ==
    imp.pc \in {"call", "collected"} =>
        \A k \in DOMAIN imp.call.history :
            LET o == imp.call.history[k]
            IN  /\ MissingFileError(imp.tool, o) =>
                      /\ imp.call.returned = "True"
                      /\ Collected => imp.success_count = 1
                /\ (o # "ok" /\ ~MissingFileError(imp.tool, o)) =>
                      /\ imp.call.returned = "False"
                      /\ Collected => imp.success_count = 0

\* the attempt of import_mariadb_fast that met a lock wait timeout with
\* attempts remaining
RetriedAttempt(k) ==
    /\ imp.tool = "import_mariadb_fast"
    /\ imp.call.history[k] = "Lock wait timeout exceeded"
    /\ k < imp.call.max_retries

\* C26 amended: an attempt that meets a missing-file error is the last of
\* its call, which returns True and is counted; an attempt that meets any
\* other error is the last of its call, which returns False and is not
\* counted, unless it is an attempt of import_mariadb_fast that met a lock
\* wait timeout with attempts remaining: that one is followed by another
\* attempt, and the call returns what a later attempt makes it return.
C26_MissingFileIsSuccess ==
    imp.pc \in {"call", "collected"} =>
        /\ \A k \in DOMAIN imp.call.history :
              LET o == imp.call.history[k]
              IN  /\ MissingFileError(imp.tool, o) =>
                        /\ k = Len(imp.call.history)
                        /\ imp.call.returned = "True"
                        /\ Collected => imp.success_count = 1
                  /\ (o # "ok" /\ ~MissingFileError(imp.tool, o)
                      /\ ~RetriedAttempt(k)) =>
                        /\ k = Len(imp.call.history)
                        /\ imp.call.returned = "False"
                        /\ Collected => imp.success_count = 0
                  /\ RetriedAttempt(k) =>
                        \/ k < Len(imp.call.history)
                        \/ imp.call.returned = "running"
        /\ imp.success_count = IF Collected /\ imp.call.returned = "True" THEN 1 ELSE 0

\* C26's case: a call of import_mariadb_fast met a lock wait timeout, then a
\* table file that "doesn't exist", returned True and was counted
C26_Witness ==
    /\ Collected
    /\ imp.tool = "import_mariadb_fast"
    /\ imp.call.history = <<"Lock wait timeout exceeded", "doesn't exist">>
    /\ imp.call.returned = "True"
    /\ imp.success_count = 1

\* a run of import_chunked_data of one of the importers that use a thread pool
PooledChunkedRun ==
    /\ imp.pc \in {"importing", "done"}
    /\ imp.tool \in {"import_mysql", "import_mysql_fast", "import_mariadb_fast"}
    /\ imp.args.chunks # 0

\* the tasks whose import returned True
ReturnedTrue ==
    {i \in DOMAIN imp.tasks :
        imp.outcomes[i] \in {"ok", "No such file", "cannot be opened",
                             "doesn't exist"}}

\* C27: import_chunked_data makes num_chunks * |TPCDS_TABLES| tasks, one for
\* each chunk and table, with the path
\* /data/chunk_<k>/<table>_<k>_<num_chunks>.dat; whatever the order the
\* workers take them in, a task that has run is never run again and none is
\* left when the routine ends; success_count is at every moment the number
\* of tasks that returned True, between 0 and the number of tasks, and a task
\* that raised is not in it.
C27_EveryTaskOnceAndCounted ==
    /\ [](PooledChunkedRun =>
            /\ Len(imp.tasks) = imp.args.chunks * Len(TPCDS_TABLES)
            /\ \A k \in 1..imp.args.chunks, t \in DOMAIN TPCDS_TABLES :
                  Cardinality(
                      {i \in DOMAIN imp.tasks :
                          /\ imp.tasks[i].table = TPCDS_TABLES[t]
                          /\ imp.tasks[i].chunk_id = k
                          /\ imp.tasks[i].path =
                               [dir |-> k, table |-> TPCDS_TABLES[t],
                                child |-> k, parallel |-> imp.args.chunks]}) = 1
            /\ DOMAIN imp.outcomes = DOMAIN imp.tasks
            /\ imp.success_count = Cardinality(ReturnedTrue)
            /\ 0 <= imp.success_count /\ imp.success_count <= Len(imp.tasks)
            /\ \A i \in DOMAIN imp.tasks :
                  imp.outcomes[i] = "raised" => i \notin ReturnedTrue
            /\ imp.pc = "done" =>
                  \A i \in DOMAIN imp.tasks : imp.outcomes[i] # "pending")
    /\ [][PooledChunkedRun =>
            /\ imp'.tasks = imp.tasks
            /\ \A i \in DOMAIN imp.tasks :
                  imp.outcomes[i] # "pending" => imp'.outcomes[i] = imp.outcomes[i]
            /\ Cardinality({i \in DOMAIN imp.tasks :
                               imp.outcomes[i] # imp'.outcomes[i]}) <= 1]_vars

\* C27's case: of the four tasks of two chunks, run out of order, one
\* succeeded, one met a missing file, one raised and one met another error
C27_Witness ==
    /\ PooledChunkedRun
    /\ imp.pc = "done"
    /\ imp.args.chunks = 2
    /\ imp.outcomes = <<"other", "raised", "No such file", "ok">>
    /\ imp.success_count = 2

\* the calls main makes on the importer, in the order of its text
MainSteps == <<"test_connection", "create_tables", "import">>

\* an import routine is entered in this step
ImportStarts ==
    /\ "import" \notin Range(imp.steps)
    /\ "import" \in Range(imp'.steps)

\* C28: in every importer's main an import starts only after the
\* connection test succeeded and then create_tables returned True, in that
\* order; a failed connection test or a failed create_tables ends the
\* process with status 1 and nothing imported; with --test-connection the
\* process ends after the connection test (status 0 or 1 by its result)
\* with no table created and nothing imported; and a missing schema file
\* does not stop the run, which goes on to the import
C28_NoImportBeforeConnectAndCreate ==
    /\ [](imp.pc \notin {"off", "call", "collected"} =>
            LET s == imp.steps
                imported == \/ "import" \in Range(s)
                            \/ imp.tasks # <<>>
                            \/ imp.success_count # 0
            IN  /\ Len(s) <= Len(MainSteps)
                /\ s = SubSeq(MainSteps, 1, Len(s))
                /\ Len(s) >= 2 => imp.db.connects /\ ~imp.args.test
                /\ imported =>
                      /\ Len(s) = 3
                      /\ imp.db.connects
                      /\ imp.db.schema # "bad"
                      /\ ~imp.args.test
                /\ Len(s) >= 1 /\ imp.args.test =>
                      /\ imp.pc = "exit"
                      /\ s = <<"test_connection">>
                      /\ imp.status = IF imp.db.connects THEN 0 ELSE 1
                      /\ ~imported
                /\ Len(s) >= 1 /\ ~imp.args.test /\ ~imp.db.connects =>
                      /\ imp.pc = "exit"
                      /\ s = <<"test_connection">>
                      /\ imp.status = 1
                      /\ ~imported
                /\ Len(s) >= 2 /\ imp.db.schema = "bad" =>
                      /\ imp.pc = "exit"
                      /\ s = <<"test_connection", "create_tables">>
                      /\ imp.status = 1
                      /\ ~imported
                /\ Len(s) >= 2 /\ imp.db.schema # "bad" =>
                      /\ imp.pc \in {"created", "importing", "done", "crash"}
                      /\ imp.pc # "created" /\ CallsImport(imp.tool, imp.args)
                            => imported
                /\ imp.pc = "exit" => ~imported)
    /\ [][ImportStarts =>
            /\ imp.pc = "created"
            /\ imp.steps = <<"test_connection", "create_tables">>
            /\ imp.db.connects
            /\ imp.db.schema # "bad"]_vars

\* a run without schema file that connected, went through create_tables
\* and imported its files
C28_Witness ==
    /\ imp.tool = "import_mysql"
    /\ imp.db.schema = "missing"
    /\ imp.db.connects
    /\ imp.pc = "done"
    /\ imp.steps = MainSteps
    /\ imp.args.chunks = 1
    /\ \E i \in DOMAIN imp.outcomes : imp.outcomes[i] = "ok"
    /\ imp.success_count >= 1

-----------------------------------------------------------------------------
(* Claims about generate_chunks. *)

\* the rows of table t in every chunk directory that has a file for it, in
\* chunk order
RowsOfEveryChunk(t) ==
    Concat([k \in 1..gen.args.chunks |->
              IF t \in gen.present[k] THEN RowsIn(t, k) ELSE <<>>])

\* C17 as stated: with --combine-chunks, files are combined only if every
\* chunk generation succeeded, and then for each table of chunk_1 there is
\* a combined file that holds the table's rows from every chunk directory,
\* in chunk order.
C17_CombinedHoldsEveryChunk ==
    gen.pc = "done" =>
        /\ gen.out # {} =>
              gen.args.combine /\ \A k \in DOMAIN gen.ok : gen.ok[k]
        /\ (gen.args.combine /\ \A k \in DOMAIN gen.ok : gen.ok[k]) =>
              \A t \in gen.present[1] :
                  \E f \in gen.out :
                      /\ f.name.table = t
                      /\ f.name.part = 0
                      /\ f.rows = RowsOfEveryChunk(t)

\* the outcome of the attempt made last in the call
LastOutcome == imp.call.history[Len(imp.call.history)]

\* what holds of a call of import_chunk_file at every moment
RetryDiscipline ==
    LET c == imp.call
        n == Len(c.history)
    IN  /\ c.attempt = n
        /\ n <= c.max_retries
        /\ \A i \in 1..(n - 1) :
              c.history[i] = "Lock wait timeout exceeded" /\ i < c.max_retries
        /\ c.slept = [i \in 1..(n - 1) |-> i]
        /\ c.returned = "running" =>
              /\ n > 0 => LastOutcome = "Lock wait timeout exceeded"
              /\ n < c.max_retries \/ c.max_retries = 0
        /\ c.returned = "True" =>
              /\ n > 0
              /\ LastOutcome \in {"ok", "No such file", "cannot be opened",
                                  "doesn't exist"}
        /\ c.returned = "False" =>
              \/ n = 0 /\ c.max_retries = 0
              \/ n > 0 /\ LastOutcome = "other"
              \/ n > 0 /\ LastOutcome = "Lock wait timeout exceeded"
                       /\ n = c.max_retries

\* C18: a call of MariaDBFastImporter.import_chunk_file makes at most
\* max_retries attempts and returns; an attempt is followed by another only
\* when it met a lock wait timeout and attempts remained; it returns True
\* at once on success and on a missing file, and False at once on any other
\* error and on a lock wait timeout of the last attempt.
C18_RetryOnlyOnLockTimeout ==
    /\ [](imp.pc = "call" => RetryDiscipline)
    /\ [][/\ imp.call.returned = "running"
          /\ \/ imp'.call.attempt = imp.call.attempt + 1
             \/ imp'.call.returned = "False" /\ imp.call.max_retries = 0]_vars
    /\ <>(imp.call.returned \in {"True", "False"})

\* C18's case: three attempts met a lock wait timeout, the third was the
\* last one allowed, and the call returned False
C18_Witness ==
    /\ imp.pc = "call"
    /\ imp.call.max_retries = 3
    /\ imp.call.history = <<"Lock wait timeout exceeded",
                            "Lock wait timeout exceeded",
                            "Lock wait timeout exceeded">>
    /\ imp.call.returned = "False"

-----------------------------------------------------------------------------
(* Claims about files of several statements. *)

\* the bare name of the node is, whatever the case, a CTE name of another
\* statement of the file
NamesCteElsewhere(p) ==
    \E s \in DOMAIN last.parsed :
        /\ s # p[1]
        /\ \E j \in DOMAIN last.parsed[s].ctes :
              Lower(last.parsed[s].ctes[j]) = Lower(NodeIn(p).name)

\* C21: the CTE names are those of the statement: an unqualified table whose
\* bare name is a CTE name of another statement of the file, and not of its
\* own, is given the catalog and the schema of the entry drawn for it.
C21_CteNamesPerStatement ==
    RewriteReturned =>
        \A p \in Nodes :
            (/\ Unqualified(NodeIn(p)) /\ ~NodeIn(p).parentIsCTE
             /\ ~NamesCte(p) /\ NamesCteElsewhere(p)) =>
                /\ DrewFor(p)
                /\ NodeOut(p).catalog # <<>>
                /\ NodeOut(p).db # <<>>
                /\ \E c \in DOMAIN last.draws :
                      /\ last.drawnFor[c] = p
                      /\ last.draws[c] = Combo(NodeOut(p).catalog, NodeOut(p).db)

\* C21's case: the first statement defines the CTE "T", the second defines
\* no CTE and its unqualified table "t" was prefixed
C21_Witness ==
    /\ RewriteReturned
    /\ Len(last.parsed) = 2
    /\ last.parsed[1].ctes = <<<<"T">>>>
    /\ last.parsed[2].ctes = <<>>
    /\ \E p \in Nodes :
          /\ p[1] = 2
          /\ NodeIn(p).name = TabT
          /\ Unqualified(NodeIn(p))
          /\ ~Unqualified(NodeOut(p))

-----------------------------------------------------------------------------
(* Claims about the draws. *)

\* main is about to process a file whose text parses into statements
NextParses ==
    /\ pc = "loop"
    /\ idx < Len(env.files)
    /\ env.files[idx + 1].parse.outcome = "ok"
    /\ \A s \in DOMAIN env.files[idx + 1].parse.stmts :
          ~env.files[idx + 1].parse.stmts[s].isNone

\* the pairs of draws made for two nodes of one statement that bear the same
\* bare name
TwinDraws(stmts) ==
    {d \in (1..Cardinality(Prefixed(stmts))) \X (1..Cardinality(Prefixed(stmts))) :
        /\ d[1] < d[2]
        /\ DrawnFor(stmts)[d[1]][1] = DrawnFor(stmts)[d[2]][1]
        /\ stmts[DrawnFor(stmts)[d[1]][1]].tables[DrawnFor(stmts)[d[1]][2]].name
             = stmts[DrawnFor(stmts)[d[2]][1]].tables[DrawnFor(stmts)[d[2]][2]].name}

\* the pool holds the entries of `before`, each as many times
SameEntries(pool, before) ==
    /\ Len(pool) = Len(before)
    /\ \A e \in Range(pool) \cup Range(before) : Count(e, pool) = Count(e, before)

\* the results the call of rewrite_sql on the next file can have
NextResults ==
    rewrite_sql(strip_comments_and_semicolon(env.files[idx + 1].text),
                env.files[idx + 1].parse, combos, rng)

\* C22: each draw is made from the whole pool, independently of the others.
\* Before a file that parses, with a pool of two entries or more, every
\* assignment of pool entries to the draws of the file is a possible result
\* of rewrite_sql; for two unqualified references to one bare name in one
\* statement, both the result where the two draw the same entry and the
\* result where they draw different entries are possible; and after the call
\* every entry drawn is still in the pool, which holds what it held before.
C22_DrawsIndependentFromWholePool ==
    /\ (NextParses /\ Cardinality(Range(combos)) >= 2) =>
          LET stmts == env.files[idx + 1].parse.stmts
              n == Cardinality(Prefixed(stmts))
              drawn == {res.draws : res \in {r \in NextResults : r.raised = "none"}}
          IN  /\ \A d \in [1..n -> Range(combos)] : d \in drawn
              /\ \A t \in TwinDraws(stmts) :
                    /\ \E d \in drawn : d[t[1]] = d[t[2]]
                    /\ \E d \in drawn : d[t[1]] # d[t[2]]
    /\ RewriteReturned =>
          /\ \A c \in DOMAIN last.draws : last.draws[c] \in Range(combos)
          /\ SameEntries(combos, last.poolBefore)

\* C22's case: two unqualified references to "t" in one statement drew
\* different entries of the pool
C22_Witness ==
    /\ RewriteReturned
    /\ \E t \in TwinDraws(last.parsed) :
          /\ NodeIn(last.drawnFor[t[1]]).name = TabT
          /\ last.draws[t[1]] # last.draws[t[2]]
          /\ NodeOut(last.drawnFor[t[1]]) # NodeOut(last.drawnFor[t[2]])

\* the statements of the last file that hold no table node
Tableless == {s \in DOMAIN last.parsed : last.parsed[s].tables = <<>>}

\* C23: for a statement without table nodes rewrite_sql makes no draw and
\* changes no node: every draw of the file was made for a node of another
\* statement, the tree serialized is the tree parsed, and the statement's part
\* of the text returned is the serialization of the parsed statement; a file
\* of such statements alone makes no draw at all.
C23_NoTablesNoDrawNoChange ==
    RewriteReturned =>
        /\ Len(last.draws) = Len(last.drawnFor)
        /\ \A c \in DOMAIN last.drawnFor : last.drawnFor[c][1] \notin Tableless
        /\ \A s \in Tableless :
              /\ last.trees[s] = last.parsed[s]
              /\ SubSeq(last.rewritten, StartOf(s), StartOf(s) + SqlLen(s) - 1)
                   = StmtSql(last.parsed[s])
        /\ Tableless = DOMAIN last.parsed =>
              /\ last.draws = <<>>
              /\ rng.pos = ShuffleDraws(Len(combos))
              /\ last.rewritten = JoinStatements(last.parsed)

\* C23's case: the first statement of a file holds a CTE and no table node,
\* the second holds a table node that was prefixed
C23_Witness ==
    /\ RewriteReturned
    /\ Len(last.parsed) = 2
    /\ 1 \in Tableless
    /\ last.parsed[1].ctes # <<>>
    /\ last.draws # <<>>
    /\ last.trees[2] # last.parsed[2]

-----------------------------------------------------------------------------
(* Claims about strip_comments_and_semicolon, read off the last loop body: *)
(* last.original is the text read, last.cleaned what the function returned.*)

\* the first units of the line that are not blank are two dashes
StartsWithDashes(ln) ==
    \E i \in 1..(Len(ln) - 1) :
        /\ ln[i] = "-" /\ ln[i + 1] = "-"
        /\ \A j \in 1..(i - 1) : IsSpace(ln[j])

\* the lines of the text read that do not start with two dashes, in order,
\* with a line end between each two
KeptLines ==
    Join(<<"\n">>, SelectSeq(SplitLines(last.original),
                             LAMBDA ln : ~StartsWithDashes(ln)))

\* how many units of s are left when the blanks at its end are taken off
EndOfText(s) ==
    CHOOSE n \in 0..Len(s) :
        /\ n > 0 => ~IsSpace(s[n])
        /\ \A j \in (n + 1)..Len(s) : IsSpace(s[j])

\* C24: what strip_comments_and_semicolon returns is the lines of the text
\* that do not start (after blanks) with "--", unchanged and in order, without
\* the blanks at the end, and then without one semicolon if that text ends in
\* one: at most one unit is removed after the blanks, and a text that ended in
\* two semicolons ends in one.
C24_CleanedText ==
    (last.file # 0 /\ last.io # "read") =>
        LET n == EndOfText(KeptLines)
            stripped == SubSeq(KeptLines, 1, n)
            out == last.cleaned
        IN  /\ n > 0 /\ stripped[n] = ";" => out = SubSeq(stripped, 1, n - 1)
            /\ ~(n > 0 /\ stripped[n] = ";") => out = stripped
            /\ Len(stripped) - Len(out) \in {0, 1}
            /\ (n > 1 /\ stripped[n] = ";" /\ stripped[n - 1] = ";") =>
                  out # <<>> /\ out[Len(out)] = ";"

\* C24's case: a text of a comment line and a line of two semicolons, of
\* which one is left
C24_Witness ==
    /\ last.file # 0
    /\ last.original = <<"-", "-", "\n", ";", ";">>
    /\ last.cleaned = <<";">>

\* C25 as stated: the randomisation is deterministic: whenever main is about
\* to process a file, the mapping and the files before it being what they
\* are, rewrite_sql can have one result only, so that two runs on the same
\* inputs assign the same qualifiers and write the same text.
C25_SameInputsSameOutputs ==
    (pc = "loop" /\ idx < Len(env.files) /\ ~NotObjectOfArrays(env.data)) =>
        \A r1, r2 \in NextResults :
            /\ r1.draws = r2.draws
            /\ r1.trees = r2.trees
            /\ r1.ret = r2.ret

\* split_table_file has returned
SplitReturned == gen.pc = "split" /\ gen.split.pc = "returned"

\* ceil(n / m) of naturals, m >= 1
Ceil(n, m) == (n + m - 1) \div m

\* C29: for an existing file of n lines and max_rows_per_part >= 1,
\* split_table_file returns ceil(n / max_rows_per_part) parts named
\* <stem>_part001.dat, <stem>_part002.dat, ...; the parts joined in order
\* are the lines of the file; every part but the last holds exactly
\* max_rows_per_part lines, the last between 1 and max_rows_per_part, none
\* is empty; a missing or an empty file gives no part
C29_SplitTableFile ==
    SplitReturned =>
        LET s == gen.split
            n == Len(s.lines)
            m == s.max_rows_per_part
            k == Len(s.parts)
        IN  /\ Len(s.written) = k
            /\ s.exists /\ m >= 1 =>
                  /\ k = Ceil(n, m)
                  /\ \A i \in 1..k :
                        /\ i <= 9 =>
                              s.parts[i] =
                                  s.base_name
                                  \o <<"_", "p", "a", "r", "t", "0", "0">>
                                  \o <<DecimalDigits[i + 1]>>
                                  \o <<".", "d", "a", "t">>
                        /\ i < k => Len(s.written[i]) = m
                        /\ s.written[i] # <<>>
                  /\ k > 0 => Len(s.written[k]) \in 1..m
                  /\ Concat(s.written) = s.lines
                  /\ s.written = SplitRows(s.lines, m)
            /\ ~s.exists \/ n = 0 => s.parts = <<>> /\ s.written = <<>>

\* five lines in parts of two: three parts, the last of one line
C29_Witness ==
    /\ SplitReturned
    /\ gen.split.exists
    /\ gen.split.lines = <<1, 2, 3, 4, 5>>
    /\ gen.split.max_rows_per_part = 2
    /\ gen.split.written = <<<<1, 2>>, <<3, 4>>, <<5>>>>
    /\ gen.split.parts[3] =
          <<"c", "_", "p", "a", "r", "t", "0", "0", "3", ".", "d", "a", "t">>

\* the last loop body called rewrite_sql on a text whose parse failed
ParseFailedLast == last.file # 0 /\ last.io # "read" /\ last.outcome # "ok"

\* main is in its loop over the files, has left it, or was ended by an
\* exception of a loop body
FilesInHand == pc \in {"loop", "done"} \/ (pc = "crash" /\ last.file # 0)

\* C30: after any number of files the pool is a permutation of the pool
\* built at start: it has the same length and holds every combo as many
\* times, so none was added, removed or duplicated; it is never empty; and
\* a file whose parse failed left the pool in the order it found it in
C30_PoolIsPermutationOfStart ==
    FilesInHand =>
        LET built == BuildCombos(mapping)
        IN  /\ combos # <<>>
            /\ Len(combos) = Len(built)
            /\ \E f \in [DOMAIN built -> DOMAIN built] :
                  /\ \A i, j \in DOMAIN built : f[i] = f[j] => i = j
                  /\ \A i \in DOMAIN built : combos[i] = built[f[i]]
            /\ \A e \in Range(combos) \cup Range(built) :
                  Count(e, combos) = Count(e, built)
            /\ ParseFailedLast => combos = last.poolBefore

\* a first file left the pool in another order than the one it was built
\* in, and a second file, whose parse failed, found and left that order
C30_Witness ==
    /\ pc \in {"loop", "done"}
    /\ idx = 2
    /\ last.file = 2
    /\ ParseFailedLast
    /\ last.warned
    /\ Len(combos) >= 2
    /\ combos # BuildCombos(mapping)
    /\ combos = last.poolBefore

=============================================================================
